---- MODULE Spec2Model ----
(***************************************************************************)
(* Agent request routing and tool-process orchestration core of            *)
(* likhonwrk/Agentic: the dispatch router, the per-agent queues and        *)
(* workers and the instance sweeps of backend/core/agent_manager.py, and   *)
(* the tool registry and tool-process supervisor of                        *)
(* backend/core/mcp_integration.py.                                        *)
(*                                                                         *)
(* Python strings are modelled as sequences of one-character strings, so   *)
(* that lower() and the substring test "keyword in message" are computed   *)
(* and not assumed.                                                        *)
(***************************************************************************)
EXTENDS Integers, Sequences, FiniteSets, TLC

(***************************************************************************)
(* Strings                                                                 *)
(***************************************************************************)
UpperAlphabet ==
    <<"A","B","C","D","E","F","G","H","I","J","K","L","M",
      "N","O","P","Q","R","S","T","U","V","W","X","Y","Z">>

LowerAlphabet ==
    <<"a","b","c","d","e","f","g","h","i","j","k","l","m",
      "n","o","p","q","r","s","t","u","v","w","x","y","z">>

\* str.lower() on one character
LowerChar(c) ==
    IF \E i \in 1..Len(UpperAlphabet) : UpperAlphabet[i] = c
    THEN LowerAlphabet[CHOOSE i \in 1..Len(UpperAlphabet) : UpperAlphabet[i] = c]
    ELSE c

\* str.lower()
Lower(s) == [i \in 1..Len(s) |-> LowerChar(s[i])]

\* Python's "k in s" for strings: k occurs in s as a contiguous substring
Contains(s, k) ==
    \E i \in 1..(Len(s) - Len(k) + 1) : SubSeq(s, i, i + Len(k) - 1) = k

\* any(keyword in s for keyword in keywords)
AnyKeywordIn(s, keywords) ==
    \E j \in 1..Len(keywords) : Contains(s, keywords[j])

\* s[:n]
Prefix(s, n) == SubSeq(s, 1, IF Len(s) < n THEN Len(s) ELSE n)


(***************************************************************************)
(* Agent selection (AgentManager._select_optimal_agent)                    *)
(***************************************************************************)

\* ['website', 'browser', 'navigate', 'click', 'screenshot', 'scrape']
BrowserKeywords ==
    << <<"w","e","b","s","i","t","e">>,
       <<"b","r","o","w","s","e","r">>,
       <<"n","a","v","i","g","a","t","e">>,
       <<"c","l","i","c","k">>,
       <<"s","c","r","e","e","n","s","h","o","t">>,
       <<"s","c","r","a","p","e">> >>

\* ['analyze', 'data', 'chart', 'statistics', 'csv', 'excel', 'graph']
DataKeywords ==
    << <<"a","n","a","l","y","z","e">>,
       <<"d","a","t","a">>,
       <<"c","h","a","r","t">>,
       <<"s","t","a","t","i","s","t","i","c","s">>,
       <<"c","s","v">>,
       <<"e","x","c","e","l">>,
       <<"g","r","a","p","h">> >>

\* ['workflow', 'multiple steps', 'coordinate', 'orchestrate', 'complex task']
WorkflowKeywords ==
    << <<"w","o","r","k","f","l","o","w">>,
       <<"m","u","l","t","i","p","l","e"," ","s","t","e","p","s">>,
       <<"c","o","o","r","d","i","n","a","t","e">>,
       <<"o","r","c","h","e","s","t","r","a","t","e">>,
       <<"c","o","m","p","l","e","x"," ","t","a","s","k">> >>


DefaultAgents ==
    {"general_assistant", "browser_specialist", "data_analyst", "workflow_orchestrator"}

GeneralAssistant == "general_assistant"
BrowserSpecialist == "browser_specialist"
DataAnalyst == "data_analyst"
WorkflowOrchestrator == "workflow_orchestrator"

\* A selection that checks the tool hints before the message keywords.
SelectToolsFirst(agent_type, tools, message) ==
    LET message_lower == Lower(message) IN
    IF "browser_automation" \in tools THEN BrowserSpecialist
    ELSE IF \E tool \in {"data_processing", "visualization"} : tool \in tools
        THEN DataAnalyst
    ELSE IF AnyKeywordIn(message_lower, BrowserKeywords) THEN BrowserSpecialist
    ELSE IF AnyKeywordIn(message_lower, DataKeywords) THEN DataAnalyst
    ELSE IF AnyKeywordIn(message_lower, WorkflowKeywords) THEN WorkflowOrchestrator
    ELSE IF agent_type = "browser" THEN BrowserSpecialist
    ELSE IF agent_type = "analysis" THEN DataAnalyst
    ELSE IF agent_type = "workflow" THEN WorkflowOrchestrator
    ELSE GeneralAssistant

\* A selection that tries the data keywords before the browser keywords.
SelectDataFirst(agent_type, tools, message) ==
    LET message_lower == Lower(message) IN
    IF AnyKeywordIn(message_lower, DataKeywords) THEN DataAnalyst
    ELSE IF AnyKeywordIn(message_lower, BrowserKeywords) THEN BrowserSpecialist
    ELSE IF AnyKeywordIn(message_lower, WorkflowKeywords) THEN WorkflowOrchestrator
    ELSE IF "browser_automation" \in tools THEN BrowserSpecialist
    ELSE IF \E tool \in {"data_processing", "visualization"} : tool \in tools
        THEN DataAnalyst
    ELSE IF agent_type = "browser" THEN BrowserSpecialist
    ELSE IF agent_type = "analysis" THEN DataAnalyst
    ELSE IF agent_type = "workflow" THEN WorkflowOrchestrator
    ELSE GeneralAssistant

\* _select_optimal_agent(agent_type, tools, message); tools is only tested
\* for membership, so the list is modelled as a set.
SelectOptimalAgent(agent_type, tools, message) ==
    LET message_lower == Lower(message) IN
    IF AnyKeywordIn(message_lower, BrowserKeywords) THEN BrowserSpecialist
    ELSE IF AnyKeywordIn(message_lower, DataKeywords) THEN DataAnalyst
    ELSE IF AnyKeywordIn(message_lower, WorkflowKeywords) THEN WorkflowOrchestrator
    ELSE IF "browser_automation" \in tools THEN BrowserSpecialist
    ELSE IF \E tool \in {"data_processing", "visualization"} : tool \in tools
        THEN DataAnalyst
    ELSE IF agent_type = "browser" THEN BrowserSpecialist
    ELSE IF agent_type = "analysis" THEN DataAnalyst
    ELSE IF agent_type = "workflow" THEN WorkflowOrchestrator
    ELSE GeneralAssistant

(***************************************************************************)
(* Inputs of the selection check                                           *)
(***************************************************************************)
\* "please screenshot this page"
MsgScreenshot == <<"p","l","e","a","s","e"," ","s","c","r","e","e","n","s","h","o","t"," ","t","h","i","s"," ","p","a","g","e">>

\* "analyze this csv file"
MsgAnalyze == <<"a","n","a","l","y","z","e"," ","t","h","i","s"," ","c","s","v"," ","f","i","l","e">>

\* "hello"
MsgHello == <<"h","e","l","l","o">>

\* "Click the chart"
MsgClickChart == <<"C","l","i","c","k"," ","t","h","e"," ","c","h","a","r","t">>

\* "workflow data"
MsgWorkflowData == <<"w","o","r","k","f","l","o","w"," ","d","a","t","a">>

\* "orchestrate a website scrape"
MsgOrchestrateScrape == <<"o","r","c","h","e","s","t","r","a","t","e"," ","a"," ","w","e","b","s","i","t","e"," ","s","c","r","a","p","e">>

\* "coordinate"
MsgCoordinate == <<"c","o","o","r","d","i","n","a","t","e">>

\* "DATABASE"
MsgDatabase == <<"D","A","T","A","B","A","S","E">>

\* ""
MsgEmpty == << >>

\* "multiple  steps"
MsgTwoSpaces == <<"m","u","l","t","i","p","l","e"," "," ","s","t","e","p","s">>

Messages ==
    {MsgScreenshot, MsgAnalyze, MsgHello, MsgClickChart, MsgWorkflowData,
     MsgOrchestrateScrape, MsgCoordinate, MsgDatabase, MsgEmpty, MsgTwoSpaces}

ToolHints == {"browser_automation", "data_processing", "visualization", "web_search"}

AgentTypeHints == {"default", "browser", "analysis", "workflow", "custom"}

(***************************************************************************)
(* Bounds of the model                                                     *)
(***************************************************************************)
MaxTasks == 3        \* submissions made in one behaviour without time
MaxTimedTasks == 2   \* submissions made in one behaviour with time and sweeps
MaxWorkerTasks == 2  \* requests enqueued in one behaviour with failing tasks
MaxPending == 2      \* submissions suspended in add_message at once
MaxSessions == 2     \* sessions minted by the session collaborator

(***************************************************************************)
(* Program constants                                                       *)
(***************************************************************************)
StuckThreshold == 300      \* seconds, _monitor_agents
ExpiryThreshold == 3600    \* seconds, _cleanup_expired_instances
TaskSummaryLen == 100      \* message[:100]

\* The clock is sampled once per expiry period: an instance's age (now minus
\* last_activity, in seconds) is 0, 3600 (stuck, not expired) or 7200 (expired).
TickStep == ExpiryThreshold

VARIABLES
    \* AgentManager
    instances,       \* instance_id -> AgentInstance
    session_agents,  \* session_id -> instance_id
    agent_queues,    \* agent_id -> sequence of request_data
    metrics,         \* agent_id -> AgentMetrics
    worker,          \* agent_id -> position of _agent_worker and its task
    pending,         \* process_message calls suspended in add_message
    sessions,        \* sessions the session collaborator has created
    nextInstance,    \* number of instance ids (uuid4) drawn so far
    nextTask,        \* number of process_message calls so far
    \* history
    submitLog,       \* task number -> outcome of the finished process_message call
    started,         \* agent_id -> task numbers in the order started
    removedLog,      \* instances removed by the idle-expiry sweep, in order
    lastSweep,       \* the sweep that made the last step, if one did
    processed,       \* task number -> how the worker ended the task
    \* selection check
    selMessage, selTools, selType, selResult,
    \* MCPServerManager
    mcp_procs,       \* MCPServerProcess objects created so far, by number
    mcp_servers,     \* self.servers: server name -> process object
    mcp_tools,       \* self.tools: tool name -> MCPTool
    server_configs,  \* self.server_configs: server name -> MCPServerConfig
    ops,             \* the manager's calls so far, suspended or returned
    \* WebSocketManager
    active_connections,  \* session_id -> WebSocket object
    ws_conns,        \* WebSocket objects accepted so far: state and what was sent
    sse_subscribers, \* session_id -> list of queues
    sse_queues,      \* queues handed out by subscribe: what was put on each
    pubs,            \* calls of send_message so far, suspended or returned
    lastCall,        \* the unsubscribe call that made the last step, if one did
    \* the agent registry and the shutdown of the workers
    agents,          \* self.agents: the agent ids with a descriptor
    shutdown,        \* how far AgentManager.cleanup() is
    createLog,       \* the calls of create_custom_agent so far and how they ended
    \* one MCPServerProcess and its child
    process,         \* self.process is set
    is_running,      \* self.is_running
    child,           \* the child process: running, exited or killed
    stop_calls,      \* calls of stop() so far, suspended or returned
    tool_calls,      \* calls of _call_tool_stdio so far, suspended or returned
    stdin,           \* requests written to the child and not answered yet
    stdout,          \* response lines written by the child and not read yet
    readers,         \* threads blocked in readline, in the order they started
    \* one call of WebSocketManager.broadcast_message
    bcast            \* where the call is, and what it found when it was made

dvars == <<instances, session_agents, agent_queues, metrics, worker, pending,
           sessions, nextInstance, nextTask, submitLog, started,
           removedLog, lastSweep, processed>>
svars == <<selMessage, selTools, selType, selResult>>
mvars == <<mcp_procs, mcp_servers, mcp_tools, server_configs, ops>>
fvars == <<active_connections, ws_conns, sse_subscribers, sse_queues, pubs,
           lastCall>>
rvars == <<agents, shutdown, createLog>>
pvars == <<process, is_running, child, stop_calls, tool_calls, stdin, stdout,
           readers>>
bvars == <<bcast>>
vars == <<dvars, svars, mvars, fvars, rvars, pvars, bvars>>

\* Optional[...]: None is the empty sequence, a value v is <<v>>
None == << >>
Some(v) == <<v>>

\* AgentInstance(instance_id, agent_id, session_id, status=IDLE): last_activity
\* defaults to utcnow(), so the age is 0
NewInstance(agent_id, session_id) ==
    [agent_id |-> agent_id, session_id |-> session_id, status |-> "idle",
     current_task |-> None, age |-> 0, message_count |-> 0, error_count |-> 0]

\* AgentMetrics(agent_id=...)
NewMetrics ==
    [total_requests |-> 0, successful_requests |-> 0, failed_requests |-> 0]

\* d[k] = v on a dict
DictSet(d, k, v) == [x \in DOMAIN d \cup {k} |-> IF x = k THEN v ELSE d[x]]

\* del d[k]
DictDel(d, k) == [x \in DOMAIN d \ {k} |-> d[x]]

EmptyDict == [x \in {} |-> 0]

\* A lookup that ignores the existing binding and always creates an instance.
AlwaysCreateInstance(agent_id, session_id, insts, sa, next) ==
    [instance_id |-> next + 1,
     instances |-> DictSet(insts, next + 1, NewInstance(agent_id, session_id)),
     session_agents |-> DictSet(sa, session_id, next + 1),
     created |-> TRUE]

\* _get_or_create_instance(agent_id, session_id): the instance id returned and
\* the two maps afterwards; uuid4 is the next unused number
GetOrCreateInstance(agent_id, session_id, insts, sa, next) ==
    IF session_id \in DOMAIN sa /\ sa[session_id] \in DOMAIN insts
    THEN [instance_id |-> sa[session_id], instances |-> insts,
          session_agents |-> sa, created |-> FALSE]
    ELSE [instance_id |-> next + 1,
          instances |-> DictSet(insts, next + 1, NewInstance(agent_id, session_id)),
          session_agents |-> DictSet(sa, session_id, next + 1),
          created |-> TRUE]

\* An update that counts the request and leaves failures uncounted.
UpdateMetricsNoFailures(m, agent_id, success) ==
    LET cur == IF agent_id \in DOMAIN m THEN m[agent_id] ELSE NewMetrics IN
    DictSet(m, agent_id,
        [total_requests |-> cur.total_requests + 1,
         successful_requests |-> cur.successful_requests + (IF success THEN 1 ELSE 0),
         failed_requests |-> cur.failed_requests])

\* _update_metrics(agent_id, response_time, success); the running average of
\* the response time is a float and is left out
UpdateMetrics(m, agent_id, success) ==
    LET cur == IF agent_id \in DOMAIN m THEN m[agent_id] ELSE NewMetrics IN
    DictSet(m, agent_id,
        [total_requests |-> cur.total_requests + 1,
         successful_requests |-> cur.successful_requests + (IF success THEN 1 ELSE 0),
         failed_requests |-> cur.failed_requests + (IF success THEN 0 ELSE 1)])

\* What the callers of process_message send in the dispatch model
DispatchInputs ==
    { [message |-> MsgHello, agent_type |-> "default", tools |-> {}],
      [message |-> MsgHello, agent_type |-> "browser", tools |-> {}] }

SelIdle ==
    /\ selMessage = MsgEmpty /\ selTools = {} /\ selType = "default"
    /\ selResult = "none"

\* AgentManager after __init__ and initialize()
DispatchIdle ==
    /\ instances = EmptyDict
    /\ session_agents = EmptyDict
    /\ agent_queues = [a \in DefaultAgents |-> << >>]
    /\ metrics = [a \in DefaultAgents |-> NewMetrics]
    /\ worker = [a \in DefaultAgents |-> [pc |-> "get", task |-> None]]
    /\ pending = {}
    /\ sessions = {}
    /\ nextInstance = 0
    /\ nextTask = 0
    /\ submitLog = EmptyDict
    /\ started = [a \in DefaultAgents |-> << >>]
    /\ removedLog = << >>
    /\ lastSweep = "none"
    /\ processed = EmptyDict

\* MCPServerManager after __init__, with no configured server
McpIdle ==
    /\ mcp_procs = << >>
    /\ mcp_servers = EmptyDict
    /\ mcp_tools = EmptyDict
    /\ server_configs = EmptyDict
    /\ ops = << >>

\* No call of unsubscribe made the last step
NoCall == [kind |-> "other"]

\* WebSocketManager after __init__
FanoutIdle ==
    /\ active_connections = EmptyDict
    /\ ws_conns = << >>
    /\ sse_subscribers = EmptyDict
    /\ sse_queues = << >>
    /\ pubs = << >>
    /\ lastCall = NoCall

\* The agent registry after _setup_default_agents, no shutdown asked for
RegistryIdle ==
    /\ agents = DefaultAgents
    /\ shutdown = "no"
    /\ createLog = << >>

\* One MCPServerProcess after a start() that found the child alive
ProcessStarted ==
    /\ process = TRUE
    /\ is_running = TRUE
    /\ child = "running"
    /\ stop_calls = << >>
    /\ tool_calls = << >>
    /\ stdin = << >>
    /\ stdout = << >>
    /\ readers = << >>

\* No call of broadcast_message has been made
BroadcastIdle ==
    bcast = [pc |-> "idle", exclude |-> {}, todo |-> << >>, cur |-> 0, conn |-> 0,
             at_call |-> EmptyDict]

Init ==
    /\ DispatchIdle /\ SelIdle /\ McpIdle /\ FanoutIdle /\ RegistryIdle
    /\ ProcessStarted /\ BroadcastIdle

(***************************************************************************)
(* process_message                                                         *)
(***************************************************************************)
\* Lines 465-483: up to the suspension in session_manager.add_message.
\* session is None (a session is minted by create_session) or Some(id) with an
\* id the collaborator created earlier; at most limit calls are made.
ProcessMessageCall(input, session, limit) ==
    /\ nextTask < limit
    /\ Cardinality(pending) < MaxPending
    /\ session = None => Cardinality(sessions) < MaxSessions
    /\ LET session_id == IF session = None THEN Cardinality(sessions) + 1
                         ELSE session[1]
           agent_id == SelectOptimalAgent(input.agent_type, input.tools, input.message)
           r == GetOrCreateInstance(agent_id, session_id, instances,
                                    session_agents, nextInstance)
       IN /\ agent_id \in DefaultAgents
          /\ sessions' = sessions \cup (IF session = None THEN {session_id} ELSE {})
          /\ instances' = r.instances
          /\ session_agents' = r.session_agents
          /\ nextInstance' = IF r.created THEN nextInstance + 1 ELSE nextInstance
          /\ nextTask' = nextTask + 1
          /\ pending' = pending \cup
                {[tid |-> nextTask + 1, session_id |-> session_id,
                  agent_id |-> agent_id, instance_id |-> r.instance_id,
                  message |-> input.message, tools |-> input.tools,
                  created |-> r.created, epoch |-> Len(removedLog)]}
    /\ lastSweep' = "none"
    /\ UNCHANGED <<agent_queues, metrics, worker, submitLog, started,
                   removedLog, processed>>

\* What a finished call is remembered by; order is the number of requests put
\* on the agent's queue so far, this one included (0 for a call that raised)
LogEntry(p, outcome) ==
    [tid |-> p.tid, outcome |-> outcome, session_id |-> p.session_id,
     agent_id |-> p.agent_id, instance_id |-> p.instance_id,
     created |-> p.created, epoch |-> p.epoch,
     order |-> IF outcome = "queued"
               THEN 1 + Cardinality({j \in DOMAIN submitLog :
                            /\ submitLog[j].outcome = "queued"
                            /\ submitLog[j].agent_id = p.agent_id})
               ELSE 0]

\* A put that places the request ahead of the waiting ones.
QueuePutFront(q, request) == <<request>> \o q

\* queue.put(request_data) on an asyncio.Queue, line 494: behind the waiting
\* requests
QueuePut(q, request) == Append(q, request)

\* Lines 485-508: add_message returned; the request is put on the agent's
\* queue (unbounded, so put does not suspend) and the response is returned
ProcessMessageReturn(p) ==
    /\ p \in pending
    /\ pending' = pending \ {p}
    /\ agent_queues' = [agent_queues EXCEPT ![p.agent_id] =
            QueuePut(@, [instance_id |-> p.instance_id, message |-> p.message,
                         session_id |-> p.session_id, tools |-> p.tools,
                         tid |-> p.tid])]
    /\ submitLog' = DictSet(submitLog, p.tid, LogEntry(p, "queued"))
    /\ lastSweep' = "none"
    /\ UNCHANGED <<instances, session_agents, metrics, worker, sessions,
                   nextInstance, nextTask, started, removedLog, processed>>

\* Lines 510-512: add_message raised (its storage failed, or it does not find
\* the session) and process_message re-raises
ProcessMessageRaise(p) ==
    /\ p \in pending
    /\ pending' = pending \ {p}
    /\ submitLog' = DictSet(submitLog, p.tid, LogEntry(p, "raised"))
    /\ lastSweep' = "none"
    /\ UNCHANGED <<instances, session_agents, agent_queues, metrics, worker,
                   sessions, nextInstance, nextTask, started,
                   removedLog, processed>>

(***************************************************************************)
(* _agent_worker and _process_agent_request                                *)
(***************************************************************************)
\* A worker that takes the newest request of its queue.
TakeNewest(q) == [request |-> q[Len(q)], rest |-> SubSeq(q, 1, Len(q) - 1)]

\* queue.get() on an asyncio.Queue: the oldest request
QueueGet(q) == [request |-> Head(q), rest |-> Tail(q)]

\* A worker that can go on only while no other worker is inside a request.
RunnableWhenOthersIdle(a) ==
    /\ agent_queues[a] # << >>
    /\ \A b \in DOMAIN worker \ {a} : worker[b].pc # "execute"

\* Line 297: a worker suspended in queue.get() of its own queue can go on as
\* soon as that queue holds a request, whatever the other workers do
Runnable(a) == agent_queues[a] # << >>

\* The keys that lines 312-314 read from request_data
EnvelopeKeys == {"instance_id", "message", "session_id"}

\* Lines 297 and 312-328: the worker takes a request, marks the instance busy
\* and suspends in _execute_agent_logic
WorkerTake(a) ==
    /\ worker[a].pc = "get"
    /\ Runnable(a)
    /\ LET g == QueueGet(agent_queues[a])
           t == g.request
       IN /\ EnvelopeKeys \subseteq DOMAIN t
          /\ agent_queues' = [agent_queues EXCEPT ![a] = g.rest]
          /\ instances' =
                IF t.instance_id \in DOMAIN instances
                THEN [instances EXCEPT ![t.instance_id] =
                        [@ EXCEPT !.status = "busy",
                                  !.current_task = Some(Prefix(t.message, TaskSummaryLen)),
                                  !.age = 0]]
                ELSE instances
          /\ worker' = [worker EXCEPT ![a] = [pc |-> "execute", task |-> Some(t)]]
          /\ started' = [started EXCEPT ![a] = Append(@, t.tid)]
    /\ lastSweep' = "none"
    /\ UNCHANGED <<session_agents, metrics, pending, sessions, nextInstance,
                   nextTask, submitLog, removedLog, processed>>

\* The outcomes of the behaviour inside _execute_agent_logic: it returns its
\* text, or something in lines 375-400 raises
Behaviours == {"ok", "raised"}

\* A worker that sends nothing when the behaviour raised.
SilentOnRaise(behaviour, session_id) ==
    IF behaviour = "raised" THEN << >>
    ELSE <<[type |-> "agent_response", session_id |-> session_id]>>

\* Lines 345-352: what _process_agent_request sends through
\* websocket_manager.send_message once _execute_agent_logic has returned. The
\* text is the behaviour's, or the apology of line 404 when the behaviour
\* raised; the type is the same
ResponseEvents(behaviour, session_id) ==
    <<[type |-> "agent_response", session_id |-> session_id]>>

\* How a task ended: the failure ("none", "behaviour", or the key the envelope
\* lacked) and the events sent for it
Processed(a, session, failure, events) ==
    [agent_id |-> a, session |-> session, failure |-> failure, events |-> events]

\* Lines 331-352 and 303: _execute_agent_logic returned a text (it catches every
\* error of the behaviour and returns an apology instead); metrics and
\* instance are updated, the response is sent and the task is marked done
WorkerFinish(a, behaviour) ==
    /\ worker[a].pc = "execute"
    /\ LET t == worker[a].task[1] IN
          /\ metrics' = UpdateMetrics(metrics, a, TRUE)
          /\ processed' = DictSet(processed, t.tid,
                Processed(a, Some(t.session_id),
                          IF behaviour = "raised" THEN "behaviour" ELSE "none",
                          ResponseEvents(behaviour, t.session_id)))
          /\ instances' =
                IF t.instance_id \in DOMAIN instances
                THEN [instances EXCEPT ![t.instance_id] =
                        [@ EXCEPT !.status = "idle",
                                  !.current_task = None,
                                  !.message_count = @ + 1,
                                  !.age = 0]]
                ELSE instances
    /\ worker' = [worker EXCEPT ![a] = [pc |-> "get", task |-> None]]
    /\ lastSweep' = "none"
    /\ UNCHANGED <<session_agents, agent_queues, pending, sessions, nextInstance,
                   nextTask, submitLog, started, removedLog>>

\* A worker that ends when an error reaches its loop.
WorkerStops == "stopped"

\* Lines 305-307: an error that reaches the loop of _agent_worker is logged
\* and the worker sleeps a second before it goes on
WorkerAfterError == "pause"

\* Lines 312-314 and 354-363 on a request that lacks a key. The KeyError is
\* caught at line 354 and a failed request is counted. With instance_id read,
\* the instance is set to error and the task is marked done; without it, line
\* 361 reads an unbound name and the error leaves _process_agent_request for
\* the worker loop. Nothing is sent in either case
WorkerTakeMalformed(a) ==
    /\ worker[a].pc = "get"
    /\ Runnable(a)
    /\ LET g == QueueGet(agent_queues[a])
           t == g.request
           bound == "instance_id" \in DOMAIN t
           missing == IF ~bound THEN "instance_id"
                      ELSE IF "message" \notin DOMAIN t THEN "message"
                      ELSE "session_id"
       IN /\ ~(EnvelopeKeys \subseteq DOMAIN t)
          /\ agent_queues' = [agent_queues EXCEPT ![a] = g.rest]
          /\ metrics' = UpdateMetrics(metrics, a, FALSE)
          /\ instances' =
                IF bound /\ t.instance_id \in DOMAIN instances
                THEN [instances EXCEPT ![t.instance_id] =
                        [@ EXCEPT !.status = "error", !.error_count = @ + 1]]
                ELSE instances
          /\ worker' = [worker EXCEPT ![a] =
                [pc |-> IF bound THEN "get" ELSE WorkerAfterError, task |-> None]]
          /\ processed' = DictSet(processed, t.tid,
                Processed(a, IF "session_id" \in DOMAIN t THEN Some(t.session_id) ELSE None,
                          missing, << >>))
    /\ lastSweep' = "none"
    /\ UNCHANGED <<session_agents, pending, sessions, nextInstance, nextTask,
                   submitLog, started, removedLog>>

\* Line 307: the sleep is over, the loop goes on with queue.get()
WorkerResume(a) ==
    /\ worker[a].pc = "pause"
    /\ worker' = [worker EXCEPT ![a].pc = "get"]
    /\ lastSweep' = "none"
    /\ UNCHANGED <<instances, session_agents, agent_queues, metrics, pending,
                   sessions, nextInstance, nextTask, submitLog, started,
                   removedLog, processed>>

\* Requests that lack a key of the envelope
MalformedEnvelopes(tid) ==
    {[message |-> MsgHello, session_id |-> 1, tools |-> {}, tid |-> tid]}
    \cup {[instance_id |-> i, session_id |-> instances[i].session_id, tools |-> {}, tid |-> tid] :
                i \in DOMAIN instances}

\* agent_queues is a public attribute: a request put on an agent's queue by
\* other code than process_message
PutRaw(a, request) ==
    /\ nextTask < MaxWorkerTasks
    /\ nextTask' = nextTask + 1
    /\ agent_queues' = [agent_queues EXCEPT ![a] = QueuePut(@, request)]
    /\ lastSweep' = "none"
    /\ UNCHANGED <<instances, session_agents, metrics, worker, pending, sessions,
                   nextInstance, submitLog, started, removedLog, processed>>

(***************************************************************************)
(* Time and the two sweeps                                                 *)
(***************************************************************************)
\* TickStep seconds pass; ages past the expiry threshold are not counted on
Tick ==
    /\ \E i \in DOMAIN instances : instances[i].age <= ExpiryThreshold
    /\ instances' = [i \in DOMAIN instances |->
            IF instances[i].age <= ExpiryThreshold
            THEN [instances[i] EXCEPT !.age = @ + TickStep]
            ELSE instances[i]]
    /\ lastSweep' = "none"
    /\ UNCHANGED <<session_agents, agent_queues, metrics, worker, pending,
                   sessions, nextInstance, nextTask, submitLog, started, removedLog, processed>>

\* A sweep that only logs the stuck instances.
MonitorLogOnly(inst) == inst

\* Lines 600-605 on one instance
MonitorInstance(inst) ==
    IF inst.status = "busy" /\ inst.age > StuckThreshold
    THEN [inst EXCEPT !.status = "error", !.current_task = None]
    ELSE inst

\* One round of _monitor_agents (lines 596-611)
MonitorAgents ==
    /\ instances' = [i \in DOMAIN instances |-> MonitorInstance(instances[i])]
    /\ lastSweep' = "monitor"
    /\ UNCHANGED <<session_agents, agent_queues, metrics, worker, pending,
                   sessions, nextInstance, nextTask, submitLog, started, removedLog, processed>>

\* A sweep that finds no instance expired.
ExpiredNever(insts) == {}

\* Lines 625-628: the expired instance ids
ExpiredInstances(insts) ==
    {i \in DOMAIN insts : insts[i].age > ExpiryThreshold}

\* The ids of a set in increasing order (dicts keep insertion order, and ids
\* are drawn in increasing order)
RECURSIVE SortedSeq(_)
SortedSeq(S) ==
    IF S = {} THEN << >>
    ELSE LET m == CHOOSE x \in S : \A y \in S : x <= y
         IN <<m>> \o SortedSeq(S \ {m})

\* A sweep that deletes the expired instances and leaves the session mapping.
CleanupKeepsMapping ==
    LET expired == ExpiredInstances(instances)
        order == SortedSeq(expired)
    IN /\ instances' = [i \in DOMAIN instances \ expired |-> instances[i]]
       /\ removedLog' = removedLog \o
            [k \in 1..Len(order) |->
                [instance_id |-> order[k], session_id |-> instances[order[k]].session_id]]
       /\ lastSweep' = "cleanup"
       /\ UNCHANGED <<session_agents, agent_queues, metrics, worker, pending,
                      sessions, nextInstance, nextTask, submitLog, started, processed>>

\* One round of _cleanup_expired_instances (lines 622-636)
CleanupExpiredInstances ==
    LET expired == ExpiredInstances(instances)
        gone == {instances[i].session_id : i \in expired}
        order == SortedSeq(expired)
    IN /\ session_agents' = [s \in DOMAIN session_agents \ gone |-> session_agents[s]]
       /\ instances' = [i \in DOMAIN instances \ expired |-> instances[i]]
       /\ removedLog' = removedLog \o
            [k \in 1..Len(order) |->
                [instance_id |-> order[k], session_id |-> instances[order[k]].session_id]]
       /\ lastSweep' = "cleanup"
       /\ UNCHANGED <<agent_queues, metrics, worker, pending, sessions,
                      nextInstance, nextTask, submitLog, started, processed>>

(***************************************************************************)
(* The dispatch specification                                              *)
(***************************************************************************)
CallerSessions == {None} \cup {Some(s) : s \in sessions}

Next ==
    \/ \E input \in DispatchInputs, session \in CallerSessions :
            ProcessMessageCall(input, session, MaxTimedTasks) /\ UNCHANGED <<svars, mvars, fvars, rvars, pvars, bvars>>
    \/ \E p \in pending : ProcessMessageReturn(p) /\ UNCHANGED <<svars, mvars, fvars, rvars, pvars, bvars>>
    \/ \E p \in pending : ProcessMessageRaise(p) /\ UNCHANGED <<svars, mvars, fvars, rvars, pvars, bvars>>
    \/ \E a \in DefaultAgents : WorkerTake(a) /\ UNCHANGED <<svars, mvars, fvars, rvars, pvars, bvars>>
    \/ \E a \in DefaultAgents : WorkerFinish(a, "ok") /\ UNCHANGED <<svars, mvars, fvars, rvars, pvars, bvars>>
    \/ Tick /\ UNCHANGED <<svars, mvars, fvars, rvars, pvars, bvars>>
    \/ MonitorAgents /\ UNCHANGED <<svars, mvars, fvars, rvars, pvars, bvars>>
    \/ CleanupExpiredInstances /\ UNCHANGED <<svars, mvars, fvars, rvars, pvars, bvars>>

Spec == Init /\ [][Next]_vars

\* The sweeps run forever and time passes
FairSpec == Spec /\ WF_vars(Tick /\ UNCHANGED <<svars, mvars, fvars, rvars, pvars, bvars>>) /\ WF_vars(MonitorAgents /\ UNCHANGED <<svars, mvars, fvars, rvars, pvars, bvars>>)

\* Submissions and workers alone, within the expiry period: no time passes,
\* so that neither sweep finds anything
NextQueue ==
    \/ \E input \in DispatchInputs, session \in CallerSessions :
            ProcessMessageCall(input, session, MaxTasks) /\ UNCHANGED <<svars, mvars, fvars, rvars, pvars, bvars>>
    \/ \E p \in pending : ProcessMessageReturn(p) /\ UNCHANGED <<svars, mvars, fvars, rvars, pvars, bvars>>
    \/ \E p \in pending : ProcessMessageRaise(p) /\ UNCHANGED <<svars, mvars, fvars, rvars, pvars, bvars>>
    \/ \E a \in DefaultAgents : WorkerTake(a) /\ UNCHANGED <<svars, mvars, fvars, rvars, pvars, bvars>>
    \/ \E a \in DefaultAgents : WorkerFinish(a, "ok") /\ UNCHANGED <<svars, mvars, fvars, rvars, pvars, bvars>>

QueueSpec == Init /\ [][NextQueue]_vars

\* Submissions, requests put on the queues directly, and the workers with
\* every outcome of the behaviour; no time passes
WorkerAgents == {GeneralAssistant, BrowserSpecialist}

NextWorker ==
    \/ \E input \in DispatchInputs, session \in CallerSessions :
            ProcessMessageCall(input, session, MaxWorkerTasks) /\ UNCHANGED <<svars, mvars, fvars, rvars, pvars, bvars>>
    \/ \E p \in pending : ProcessMessageReturn(p) /\ UNCHANGED <<svars, mvars, fvars, rvars, pvars, bvars>>
    \/ \E a \in WorkerAgents : \E r \in MalformedEnvelopes(nextTask + 1) :
            PutRaw(a, r) /\ UNCHANGED <<svars, mvars, fvars, rvars, pvars, bvars>>
    \/ \E a \in DefaultAgents : WorkerTake(a) /\ UNCHANGED <<svars, mvars, fvars, rvars, pvars, bvars>>
    \/ \E a \in DefaultAgents : WorkerTakeMalformed(a) /\ UNCHANGED <<svars, mvars, fvars, rvars, pvars, bvars>>
    \/ \E a \in DefaultAgents : WorkerResume(a) /\ UNCHANGED <<svars, mvars, fvars, rvars, pvars, bvars>>
    \/ \E a \in DefaultAgents, b \in Behaviours : WorkerFinish(a, b) /\ UNCHANGED <<svars, mvars, fvars, rvars, pvars, bvars>>

WorkerSpec == Init /\ [][NextWorker]_vars

\* The event loop runs every worker that can run, and the behaviour returns
\* or raises in the end
FairWorkerSpec ==
    /\ WorkerSpec
    /\ \A a \in DefaultAgents :
        /\ WF_vars(WorkerTake(a) /\ UNCHANGED <<svars, mvars, fvars, rvars, pvars, bvars>>)
        /\ WF_vars(WorkerTakeMalformed(a) /\ UNCHANGED <<svars, mvars, fvars, rvars, pvars, bvars>>)
        /\ WF_vars(WorkerResume(a) /\ UNCHANGED <<svars, mvars, fvars, rvars, pvars, bvars>>)
        /\ WF_vars((\E b \in Behaviours : WorkerFinish(a, b)) /\ UNCHANGED <<svars, mvars, fvars, rvars, pvars, bvars>>)

(***************************************************************************)
(* Properties of the dispatch specification                                *)
(***************************************************************************)
Queued(e) == e.outcome = "queued"

LogIndex == DOMAIN submitLog

\* C1: submissions of the same session with no idle-expiry removal between
\* their calls all return the same instance id, and at most one of them
\* (returned or raised) created an instance.
C1_IdempotentBinding ==
    \A j, k \in LogIndex :
        LET e1 == submitLog[j]
            e2 == submitLog[k]
        IN (e1.session_id = e2.session_id /\ e1.epoch = e2.epoch) =>
              /\ (Queued(e1) /\ Queued(e2)) => e1.instance_id = e2.instance_id
              /\ (j # k) => ~(e1.created /\ e2.created)

\* Two submissions of one session were accepted and no worker has taken
\* anything yet.
C1_Witness ==
    /\ \E j, k \in LogIndex :
          /\ j # k /\ Queued(submitLog[j]) /\ Queued(submitLog[k])
          /\ submitLog[j].session_id = submitLog[k].session_id
          /\ submitLog[j].instance_id = submitLog[k].instance_id
    /\ \A a \in DefaultAgents : started[a] = << >>

\* The task numbers accepted for agent a, in the order they were enqueued
AcceptedOf(a, log) ==
    LET mine == {j \in DOMAIN log : Queued(log[j]) /\ log[j].agent_id = a}
    IN [n \in 1..Cardinality(mine) |-> CHOOSE j \in mine : log[j].order = n]

IsPrefix(s, t) == Len(s) <= Len(t) /\ SubSeq(t, 1, Len(s)) = s

\* C2: every worker starts the tasks of its agent in the order in which they
\* were accepted (enqueued).
C2_PerAgentFifo ==
    \A a \in DefaultAgents : IsPrefix(started[a], AcceptedOf(a, submitLog))

\* An agent started two tasks, the first of which is still being executed or
\* was, while another agent's worker started a task of its own.
C2_Witness ==
    \E a, b \in DefaultAgents :
        /\ a # b
        /\ Len(started[a]) >= 2
        /\ Len(started[b]) >= 1

Busy(i) == i \in DOMAIN instances /\ instances[i].status = "busy"

Stuck(inst) == inst.status = "busy" /\ inst.age > StuckThreshold

\* C5: a round of the stuck-instance sweep leaves every instance that was busy
\* with a last activity older than the stuck threshold in state error with no
\* current task, so that no such instance is left after the round; and with
\* the sweep and the clock running, no instance stays busy forever.
C5_StuckForcedToError ==
    /\ [][lastSweep' = "monitor" =>
            \A i \in DOMAIN instances :
                Stuck(instances[i])
                    => /\ i \in DOMAIN instances'
                       /\ instances'[i].status = "error"
                       /\ instances'[i].current_task = None]_vars
    /\ [](lastSweep = "monitor" =>
            \A i \in DOMAIN instances : ~Stuck(instances[i]))
    /\ \A i \in 1..MaxTimedTasks : []<>(~Busy(i))

\* The sweep forced the instance of a task to error while the worker is still
\* executing the task.
C5_Witness ==
    \E a \in DefaultAgents :
        /\ worker[a].pc = "execute"
        /\ worker[a].task[1].instance_id \in DOMAIN instances
        /\ instances[worker[a].task[1].instance_id].status = "error"
        /\ instances[worker[a].task[1].instance_id].current_task = None

RemovedBefore(e) == {removedLog[k] : k \in 1..e.epoch}

Removed == {removedLog[k] : k \in 1..Len(removedLog)}

\* C6: a round of the idle-expiry sweep leaves no instance whose last activity
\* is older than the expiry threshold; a removed instance is in neither the
\* instance table nor the session mapping; and a submission called after a
\* removal never returns the id of an instance removed before the call.
C6_ExpiredRemovedAndFresh ==
    /\ lastSweep = "cleanup" =>
            \A i \in DOMAIN instances : instances[i].age <= ExpiryThreshold
    /\ \A r \in Removed :
            /\ r.instance_id \notin DOMAIN instances
            /\ \A s \in DOMAIN session_agents : session_agents[s] # r.instance_id
    /\ \A j \in LogIndex :
            \A r \in RemovedBefore(submitLog[j]) :
                r.instance_id # submitLog[j].instance_id

\* A session whose instance was removed submitted again and was accepted.
C6_Witness ==
    \E j \in LogIndex :
        /\ Queued(submitLog[j])
        /\ \E r \in RemovedBefore(submitLog[j]) :
              /\ r.session_id = submitLog[j].session_id
              /\ r.instance_id \notin DOMAIN instances
        /\ submitLog[j].instance_id \in DOMAIN instances

\* C10: the instance id an accepted submission returns names an instance
\* owned by the agent id and the session id returned with it.
C10_InstanceOfSelectedAgent ==
    \A j \in LogIndex :
        LET e == submitLog[j] IN
        (Queued(e) /\ e.instance_id \in DOMAIN instances) =>
            /\ instances[e.instance_id].agent_id = e.agent_id
            /\ instances[e.instance_id].session_id = e.session_id

(***************************************************************************)
(* The selection specification: _select_optimal_agent on every input       *)
(***************************************************************************)
InitSelect ==
    /\ DispatchIdle
    /\ McpIdle
    /\ FanoutIdle
    /\ RegistryIdle
    /\ ProcessStarted
    /\ BroadcastIdle
    /\ selMessage \in Messages
    /\ selTools \in SUBSET ToolHints
    /\ selType \in AgentTypeHints
    /\ selResult = "none"

Select ==
    /\ selResult = "none"
    /\ selResult' = SelectOptimalAgent(selType, selTools, selMessage)
    /\ UNCHANGED <<selMessage, selTools, selType>>

NextSelect == Select /\ UNCHANGED <<dvars, mvars, fvars, rvars, pvars, bvars>>

SelectSpec == InitSelect /\ [][NextSelect]_vars

\* The rules as the specification lists them
MentionsBrowser(m) == AnyKeywordIn(Lower(m), BrowserKeywords)
MentionsData(m) == AnyKeywordIn(Lower(m), DataKeywords)
MentionsWorkflow(m) == AnyKeywordIn(Lower(m), WorkflowKeywords)
KeywordMatch(m) == MentionsBrowser(m) \/ MentionsData(m) \/ MentionsWorkflow(m)
ToolHintMatch(t) == t \cap {"browser_automation", "data_processing", "visualization"} # {}
TypeHintMatch(h) == h \in {"browser", "analysis", "workflow"}
Specialists == {BrowserSpecialist, DataAnalyst, WorkflowOrchestrator}
Selected == selResult # "none"

\* C3: the rules apply in the order keyword, tool hint, agent-type hint,
\* generic: a keyword match decides whatever the hints are, a tool hint
\* decides whatever the agent-type hint is, and with no match the generic
\* agent is selected.
C3_RuleOrder ==
    Selected =>
        /\ KeywordMatch(selMessage) =>
                selResult = SelectOptimalAgent("default", {}, selMessage)
        /\ (~KeywordMatch(selMessage) /\ ToolHintMatch(selTools)) =>
                /\ selResult = SelectOptimalAgent("default", selTools, MsgEmpty)
                /\ selResult = (IF "browser_automation" \in selTools
                                THEN BrowserSpecialist ELSE DataAnalyst)
        /\ (~KeywordMatch(selMessage) /\ ~ToolHintMatch(selTools)
                /\ TypeHintMatch(selType)) =>
                selResult = (CASE selType = "browser" -> BrowserSpecialist
                               [] selType = "analysis" -> DataAnalyst
                               [] selType = "workflow" -> WorkflowOrchestrator)
        /\ (~KeywordMatch(selMessage) /\ ~ToolHintMatch(selTools)
                /\ ~TypeHintMatch(selType)) =>
                selResult = GeneralAssistant
        /\ KeywordMatch(selMessage) => selResult \in Specialists

\* A keyword decided against a tool hint and an agent-type hint that both
\* name another agent.
C3_Witness ==
    /\ Selected
    /\ selMessage = MsgAnalyze
    /\ "browser_automation" \in selTools
    /\ selType = "workflow"
    /\ selResult = DataAnalyst

\* C4: a browser keyword selects the browser agent; a data keyword without a
\* browser keyword selects the data agent; a workflow keyword without those
\* selects the workflow agent; no keyword and no hint selects the generic
\* agent; matching is on the lower-cased message.
C4_KeywordPriority ==
    Selected =>
        /\ MentionsBrowser(selMessage) => selResult = BrowserSpecialist
        /\ (MentionsData(selMessage) /\ ~MentionsBrowser(selMessage)) =>
                selResult = DataAnalyst
        /\ (MentionsWorkflow(selMessage) /\ ~MentionsData(selMessage)
                /\ ~MentionsBrowser(selMessage)) =>
                selResult = WorkflowOrchestrator
        /\ (selMessage = MsgScreenshot) => selResult = BrowserSpecialist
        /\ (selMessage = MsgAnalyze) => selResult = DataAnalyst
        /\ (selMessage = MsgHello /\ selTools = {} /\ selType = "default") =>
                selResult = GeneralAssistant

\* "Click the chart" holds a browser and a data keyword and went to the
\* browser agent.
C4_Witness ==
    /\ Selected
    /\ selMessage = MsgClickChart
    /\ MentionsBrowser(selMessage) /\ MentionsData(selMessage)
    /\ selResult = BrowserSpecialist

(***************************************************************************)
(* Tool processes and the tool registry (mcp_integration.py)               *)
(***************************************************************************)
MaxOps == 3      \* calls of the manager's operations in one behaviour

ServerNames == {"A", "B"}
ToolNames == {"t1", "t2"}

\* MCPServerConfig(name, ...), stdio connection, auto_restart left at its default
Config(name) == [name |-> name, auto_restart |-> TRUE]

\* MCPServerProcess(config) once Popen returned: the handle is set, is_running
\* is still False, no tool is known. os is the state of the child as far as
\* the program has seen it: a child may exit on its own at any time, and the
\* exit takes effect in the step that finds it (the poll after the sleep, an
\* empty read)
NewProcess(config) ==
    [config |-> config, handle |-> TRUE, is_running |-> FALSE, tools |-> {},
     os |-> "running"]

\* A stop() that leaves the process object as it found it.
NotStopped(proc) == proc

\* MCPServerProcess.stop(), lines 226-242, when it returns: the child has
\* exited or was killed, the handle is released
Stopped(proc) ==
    [proc EXCEPT !.handle = FALSE, !.is_running = FALSE,
                 !.os = IF proc.handle THEN "exited" ELSE @]

\* Lines 365-367 and 456-458: the index without the tools of server_name
RemoveToolsOf(index, server_name) ==
    [t \in {x \in DOMAIN index : index[x].server_name # server_name} |-> index[t]]

\* Lines 344-345 and 467-468: the tools of process pid are put in the index
RegisterTools(index, pid, proc) ==
    [t \in DOMAIN index \cup proc.tools |->
        IF t \in proc.tools
        THEN [server_name |-> proc.config.name, origin |-> pid]
        ELSE index[t]]

\* A call whose timeout is taken for the death of the process.
ProcAfterCallTimeoutStops(proc, outcome) ==
    IF outcome = "ToolTimeout" THEN [proc EXCEPT !.is_running = FALSE] ELSE proc

\* _call_tool_stdio, lines 192-211: no field of the process is assigned,
\* whatever the outcome of the read
ProcAfterCall(proc, outcome) == proc

\* A lookup that asks the processes themselves and takes the first that has
\* the tool.
ResolveByScan(tool_name) ==
    LET having == {n \in DOMAIN mcp_servers :
                        tool_name \in mcp_procs[mcp_servers[n]].tools}
    IN IF having = {} THEN [found |-> FALSE, owner |-> "", pid |-> 0]
       ELSE LET n == CHOOSE x \in having : TRUE
            IN [found |-> TRUE, owner |-> n, pid |-> mcp_servers[n]]

\* MCPServerManager.call_tool, lines 382-388: the owner recorded in the index
\* and the process registered under the owner's name (0: none)
ResolveTool(tool_name) ==
    IF tool_name \notin DOMAIN mcp_tools
    THEN [found |-> FALSE, owner |-> "", pid |-> 0]
    ELSE LET n == mcp_tools[tool_name].server_name
         IN [found |-> TRUE, owner |-> n,
             pid |-> IF n \in DOMAIN mcp_servers THEN mcp_servers[n] ELSE 0]

\* One call of an operation of the manager. pc is where the coroutine is
\* suspended, or "done"; pid is the process object it holds (0: none), old the
\* process object a restart found registered, owner the index's owner of a
\* called tool
Op(kind, name, pc, pid, old, result, outcome, owner) ==
    [kind |-> kind, name |-> name, pc |-> pc, pid |-> pid, old |-> old,
     result |-> result, outcome |-> outcome, owner |-> owner]

Returned(o, result, outcome) ==
    [o EXCEPT !.pc = "done", !.result = result, !.outcome = outcome]

SetProc(pid, proc) == [mcp_procs EXCEPT ![pid] = proc]

(***************************************************************************)
(* add_server                                                              *)
(***************************************************************************)
\* Lines 333-338 and start() up to the sleep of line 75
AddServer(name, spawn_ok) ==
    /\ Len(ops) < MaxOps
    /\ IF name \in DOMAIN mcp_servers
       THEN /\ ops' = Append(ops, Op("add", name, "done", 0, 0, FALSE, "exists", ""))
            /\ UNCHANGED mcp_procs
       ELSE IF ~spawn_ok
       THEN \* Popen raised: stop() finds no handle, start re-raises
            /\ ops' = Append(ops, Op("add", name, "done", 0, 0, FALSE, "start_failed", ""))
            /\ UNCHANGED mcp_procs
       ELSE /\ mcp_procs' = Append(mcp_procs, NewProcess(Config(name)))
            /\ ops' = Append(ops, Op("add", name, "settle", Len(mcp_procs) + 1, 0,
                                     FALSE, "", ""))
    /\ UNCHANGED <<mcp_servers, mcp_tools, server_configs>>

\* start(), lines 78-86: after the sleep the child is polled; alive, it is
\* marked running and asked for its tools; dead, start calls stop
StartSettled(k, alive) ==
    /\ k \in DOMAIN ops
    /\ ops[k].pc = "settle"
    /\ LET proc == mcp_procs[ops[k].pid] IN
       IF alive /\ proc.os = "running"
       THEN /\ mcp_procs' = SetProc(ops[k].pid, [proc EXCEPT !.is_running = TRUE])
            /\ ops' = [ops EXCEPT ![k].pc = "discover"]
       ELSE /\ mcp_procs' = SetProc(ops[k].pid, [proc EXCEPT !.os = "exited"])
            /\ ops' = [ops EXCEPT ![k].pc = "start_failed"]
    /\ UNCHANGED <<mcp_servers, mcp_tools, server_configs>>

\* start(), lines 88-91: stop() returned, the error is raised again and
\* add_server or restart_server returns False
StartFailed(k) ==
    /\ k \in DOMAIN ops
    /\ ops[k].pc = "start_failed"
    /\ mcp_procs' = SetProc(ops[k].pid, Stopped(mcp_procs[ops[k].pid]))
    /\ ops' = [ops EXCEPT ![k] = Returned(@, FALSE, "start_failed")]
    /\ UNCHANGED <<mcp_servers, mcp_tools, server_configs>>

\* _discover_tools_stdio, lines 129-144, then lines 340-348 (add_server) or
\* 464-471 (restart_server): the tools found (none when the read timed out,
\* was empty or invalid) are kept, the process is put in the server map and
\* its tools in the index
StartDiscovered(k, found) ==
    /\ k \in DOMAIN ops
    /\ ops[k].pc = "discover"
    /\ mcp_procs[ops[k].pid].os = "exited" => found = {}
    /\ LET pid == ops[k].pid
           proc == [mcp_procs[pid] EXCEPT !.tools = @ \cup found]
           name == ops[k].name
       IN /\ mcp_procs' = SetProc(pid, proc)
          /\ mcp_servers' = DictSet(mcp_servers, name, pid)
          /\ server_configs' = IF ops[k].kind = "add"
                               THEN DictSet(server_configs, name, proc.config)
                               ELSE server_configs
          /\ mcp_tools' = RegisterTools(mcp_tools, pid, proc)
          /\ ops' = [ops EXCEPT ![k] = Returned(@, TRUE, "ok")]

(***************************************************************************)
(* remove_server                                                           *)
(***************************************************************************)
\* Lines 364-378, after stop() returned: the tools of the name leave the
\* index, then the name leaves the server map and the configurations; a name
\* that another call has removed meanwhile raises KeyError at line 369, after
\* the tools were removed, and the call returns False. base is the list of
\* calls in which entry k is this one
RemoveAfterStop(base, k, name, pid) ==
    /\ mcp_procs' = SetProc(pid, Stopped(mcp_procs[pid]))
    /\ mcp_tools' = RemoveToolsOf(mcp_tools, name)
    /\ IF name \in DOMAIN mcp_servers
       THEN /\ mcp_servers' = DictDel(mcp_servers, name)
            /\ server_configs' = DictDel(server_configs, name)
            /\ ops' = [base EXCEPT ![k] = Returned(@, TRUE, "ok")]
       ELSE /\ ops' = [base EXCEPT ![k] = Returned(@, FALSE, "error")]
            /\ UNCHANGED <<mcp_servers, server_configs>>

\* Lines 357-362: the name is looked up and the process is told to stop. With
\* a handle, stop() sends terminate and waits for the exit; without one it
\* returns at once and the rest of the removal follows in the same step
RemoveServer(name) ==
    /\ Len(ops) < MaxOps
    /\ IF name \notin DOMAIN mcp_servers
       THEN /\ ops' = Append(ops, Op("remove", name, "done", 0, 0, FALSE, "not_found", ""))
            /\ UNCHANGED <<mcp_procs, mcp_servers, mcp_tools, server_configs>>
       ELSE LET pid == mcp_servers[name]
                o == Op("remove", name, "stopping", pid, pid, FALSE, "", "")
            IN IF mcp_procs[pid].handle
               THEN /\ ops' = Append(ops, o)
                    /\ UNCHANGED <<mcp_procs, mcp_servers, mcp_tools, server_configs>>
               ELSE RemoveAfterStop(Append(ops, o), Len(ops) + 1, name, pid)

RemoveStopped(k) ==
    /\ k \in DOMAIN ops
    /\ ops[k].kind = "remove"
    /\ ops[k].pc = "stopping"
    /\ RemoveAfterStop(ops, k, ops[k].name, ops[k].pid)

(***************************************************************************)
(* restart_server                                                          *)
(***************************************************************************)
\* Lines 455-462 up to the sleep in start(): the old process has stopped, the
\* tools of the name leave the index and a new process is spawned from the
\* old one's configuration
RestartAfterStop(base, k, name, old, spawn_ok) ==
    /\ mcp_tools' = RemoveToolsOf(mcp_tools, name)
    /\ IF spawn_ok
       THEN /\ mcp_procs' = Append(SetProc(old, Stopped(mcp_procs[old])),
                                   NewProcess(mcp_procs[old].config))
            /\ ops' = [base EXCEPT ![k].pc = "settle", ![k].pid = Len(mcp_procs) + 1]
       ELSE /\ mcp_procs' = SetProc(old, Stopped(mcp_procs[old]))
            /\ ops' = [base EXCEPT ![k] = Returned(@, FALSE, "start_failed")]
    /\ UNCHANGED <<mcp_servers, server_configs>>

\* Lines 445-453
RestartServer(name, spawn_ok) ==
    /\ Len(ops) < MaxOps
    /\ IF name \notin DOMAIN mcp_servers
       THEN /\ ops' = Append(ops, Op("restart", name, "done", 0, 0, FALSE, "not_found", ""))
            /\ UNCHANGED <<mcp_procs, mcp_servers, mcp_tools, server_configs>>
       ELSE LET old == mcp_servers[name]
                o == Op("restart", name, "stopping", 0, old, FALSE, "", "")
            IN IF mcp_procs[old].handle
               THEN /\ ops' = Append(ops, o)
                    /\ UNCHANGED <<mcp_procs, mcp_servers, mcp_tools, server_configs>>
               ELSE RestartAfterStop(Append(ops, o), Len(ops) + 1, name, old, spawn_ok)

RestartStopped(k, spawn_ok) ==
    /\ k \in DOMAIN ops
    /\ ops[k].kind = "restart"
    /\ ops[k].pc = "stopping"
    /\ RestartAfterStop(ops, k, ops[k].name, ops[k].old, spawn_ok)

(***************************************************************************)
(* call_tool                                                               *)
(***************************************************************************)
\* MCPServerManager.call_tool, lines 382-390, and _call_tool_stdio up to the
\* read of line 193: an unknown name raises ValueError, an owner that is not
\* in the server map or has no handle raises RuntimeError, otherwise the
\* request is written to the process registered under the owner's name
CallTool(tool_name) ==
    /\ Len(ops) < MaxOps
    /\ LET r == ResolveTool(tool_name) IN
       ops' = Append(ops,
          IF ~r.found
          THEN Op("call", tool_name, "done", 0, 0, FALSE, "UnknownTool", "")
          ELSE IF r.pid = 0
          THEN Op("call", tool_name, "done", 0, 0, FALSE, "ServerNotAvailable", r.owner)
          ELSE IF ~mcp_procs[r.pid].handle
          THEN Op("call", tool_name, "done", 0, r.pid, FALSE, "ProcessNotAvailable", r.owner)
          ELSE Op("call", tool_name, "reading", r.pid, r.pid, FALSE, "", r.owner))
    /\ UNCHANGED <<mcp_procs, mcp_servers, mcp_tools, server_configs>>

\* A read that never returns once the process has exited.
ReadHangsAfterExit(proc) ==
    IF proc.os = "running"
    THEN {"result", "ToolInvocationError", "InvalidResponse", "ToolTimeout",
          "ProcessTerminated"}
    ELSE {}

\* What the read of lines 193-207 can end with: a live process answers with a
\* result, an error or something else, or not within the timeout; the output
\* of a process that has exited reads as an empty line
ReadOutcomes(proc) ==
    IF proc.os = "running"
    THEN {"result", "ToolInvocationError", "InvalidResponse", "ToolTimeout",
          "ProcessTerminated"}
    ELSE {"ProcessTerminated"}

\* The child after the read: an empty line shows that it has exited
ChildAfterRead(proc, outcome) ==
    IF outcome = "ProcessTerminated" THEN [proc EXCEPT !.os = "exited"] ELSE proc

CallReturn(k, outcome) ==
    /\ k \in DOMAIN ops
    /\ ops[k].kind = "call"
    /\ ops[k].pc = "reading"
    /\ outcome \in ReadOutcomes(mcp_procs[ops[k].pid])
    /\ mcp_procs' = SetProc(ops[k].pid,
            ChildAfterRead(ProcAfterCall(mcp_procs[ops[k].pid], outcome), outcome))
    /\ ops' = [ops EXCEPT ![k] = Returned(@, outcome = "result", outcome)]
    /\ UNCHANGED <<mcp_servers, mcp_tools, server_configs>>

NextMcp ==
    \/ \E n \in ServerNames, ok \in BOOLEAN : AddServer(n, ok) /\ UNCHANGED <<dvars, svars, fvars, rvars, pvars, bvars>>
    \/ \E k \in 1..MaxOps, alive \in BOOLEAN : StartSettled(k, alive) /\ UNCHANGED <<dvars, svars, fvars, rvars, pvars, bvars>>
    \/ \E k \in 1..MaxOps : StartFailed(k) /\ UNCHANGED <<dvars, svars, fvars, rvars, pvars, bvars>>
    \/ \E k \in 1..MaxOps, found \in SUBSET ToolNames :
            StartDiscovered(k, found) /\ UNCHANGED <<dvars, svars, fvars, rvars, pvars, bvars>>
    \/ \E n \in ServerNames : RemoveServer(n) /\ UNCHANGED <<dvars, svars, fvars, rvars, pvars, bvars>>
    \/ \E k \in 1..MaxOps : RemoveStopped(k) /\ UNCHANGED <<dvars, svars, fvars, rvars, pvars, bvars>>
    \/ \E n \in ServerNames, ok \in BOOLEAN : RestartServer(n, ok) /\ UNCHANGED <<dvars, svars, fvars, rvars, pvars, bvars>>
    \/ \E k \in 1..MaxOps, ok \in BOOLEAN : RestartStopped(k, ok) /\ UNCHANGED <<dvars, svars, fvars, rvars, pvars, bvars>>
    \/ \E t \in ToolNames : CallTool(t) /\ UNCHANGED <<dvars, svars, fvars, rvars, pvars, bvars>>
    \/ \E k \in 1..MaxOps, outcome \in {"result", "ToolInvocationError", "InvalidResponse",
                                         "ToolTimeout", "ProcessTerminated"} :
            CallReturn(k, outcome) /\ UNCHANGED <<dvars, svars, fvars, rvars, pvars, bvars>>

McpSpec == Init /\ [][NextMcp]_vars

(***************************************************************************)
(* Claims about the tool registry                                          *)
(***************************************************************************)
mcp_registry == <<mcp_procs, mcp_servers, mcp_tools, server_configs>>

\* The step is the start of a call of call_tool
CallStarts == Len(ops') = Len(ops) + 1 /\ ops'[Len(ops')].kind = "call"

\* C7: a call with a name that is not in the tool index fails with UnknownTool,
\* no process is contacted and the registry is as before; a call with a name
\* that is in the index does not fail that way and goes to the process that
\* the server map holds under the name of the owner recorded in the index.
C7_UnknownToolOrDelegated ==
    [][CallStarts =>
        LET c == ops'[Len(ops')] IN
        IF c.name \notin DOMAIN mcp_tools
        THEN /\ c.pc = "done" /\ c.outcome = "UnknownTool" /\ ~c.result
             /\ c.pid = 0 /\ c.old = 0
             /\ mcp_registry' = mcp_registry
        ELSE /\ c.outcome # "UnknownTool"
             /\ c.owner = mcp_tools[c.name].server_name
             /\ c.owner \in DOMAIN mcp_servers
             /\ c.old = mcp_servers[c.owner]
             /\ c.pid \in {0, c.old}
             /\ c.pc = "reading" => c.pid = c.old]_vars

\* Both kinds of call have been made: one failed with UnknownTool, one is
\* waiting for the answer of the owner
C7_Witness ==
    /\ \E k \in DOMAIN ops : ops[k].kind = "call" /\ ops[k].outcome = "UnknownTool"
    /\ \E k \in DOMAIN ops :
        /\ ops[k].kind = "call" /\ ops[k].pc = "reading"
        /\ ops[k].pid = mcp_servers[mcp_tools[ops[k].name].server_name]

\* The fields of a process that a call must not touch
ProcFrame(proc) == <<proc.is_running, proc.handle, proc.tools>>

\* C9: a call whose read times out fails with ToolTimeout, and the step that
\* ends it leaves is_running, the handle and the tool list of the process as
\* they were.
C9_TimeoutLeavesProcess ==
    [][\A k \in DOMAIN ops :
          (ops[k].pc = "reading" /\ ops'[k].pc = "done" /\ ops'[k].outcome = "ToolTimeout") =>
              /\ ~ops'[k].result
              /\ ProcFrame(mcp_procs'[ops[k].pid]) = ProcFrame(mcp_procs[ops[k].pid])
              /\ <<mcp_servers', mcp_tools'>> = <<mcp_servers, mcp_tools>>]_vars

\* A call has timed out on a process that is still registered, marked running,
\* holding its handle and its tools
C9_Witness ==
    \E k \in DOMAIN ops :
        /\ ops[k].kind = "call" /\ ops[k].outcome = "ToolTimeout"
        /\ mcp_procs[ops[k].pid].is_running
        /\ mcp_procs[ops[k].pid].handle
        /\ ops[k].name \in mcp_procs[ops[k].pid].tools

\* The names the index records as owned by server_name
OwnedBy(index, server_name) == {t \in DOMAIN index : index[t].server_name = server_name}

\* The names the index holds that were registered from process pid
RegisteredFrom(index, pid) == {t \in DOMAIN index : index[t].origin = pid}

\* C8: when restart_server returns True, the index entries owned by the name
\* are exactly the tools the new process discovered; and in no state does the
\* index hold tools registered from the old process of a restart together
\* with tools registered from its new process.
C8_RestartSwapsTools ==
    /\ [][\A k \in DOMAIN ops :
            (ops[k].kind = "restart" /\ ops[k].pc # "done"
                /\ ops'[k].pc = "done" /\ ops'[k].result) =>
            OwnedBy(mcp_tools', ops[k].name) = mcp_procs'[ops'[k].pid].tools]_vars
    /\ [](\A k \in DOMAIN ops :
            (ops[k].kind = "restart" /\ ops[k].pid # 0) =>
                ~(/\ RegisteredFrom(mcp_tools, ops[k].old) # {}
                  /\ RegisteredFrom(mcp_tools, ops[k].pid) # {}))

(***************************************************************************)
(* Further properties of the dispatch specification                        *)
(***************************************************************************)
\* The step is the return of an accepted call of process_message for task t
Accepts(t) ==
    /\ t \notin DOMAIN submitLog
    /\ t \in DOMAIN submitLog'
    /\ Queued(submitLog'[t])

\* C11: the return of an accepted submission puts exactly one request, with
\* the instance id and the session id that are returned, at the tail of the
\* selected agent's queue, changes no other queue, and happens with no step of
\* a worker: the task has not been started when the call returns.
C11_AcceptAppendsOne ==
    [][\A t \in 1..MaxTasks : Accepts(t) =>
        LET e == submitLog'[t]
            q == agent_queues[e.agent_id]
            q2 == agent_queues'[e.agent_id]
        IN /\ Len(q2) = Len(q) + 1
           /\ SubSeq(q2, 1, Len(q)) = q
           /\ q2[Len(q2)].tid = t
           /\ q2[Len(q2)].instance_id = e.instance_id
           /\ q2[Len(q2)].session_id = e.session_id
           /\ \A b \in DefaultAgents \ {e.agent_id} : agent_queues'[b] = agent_queues[b]
           /\ worker' = worker
           /\ \A b \in DefaultAgents : \A n \in DOMAIN started'[b] : started'[b][n] # t]_vars

\* A submission was accepted behind a request that is still waiting, while
\* another agent has a request waiting too and no worker has taken anything
C11_Witness ==
    \E a, b \in DefaultAgents :
        /\ a # b
        /\ Len(agent_queues[a]) >= 2
        /\ Len(agent_queues[b]) >= 1
        /\ agent_queues[a][2].tid \in DOMAIN submitLog
        /\ agent_queues[a][1].tid < agent_queues[a][2].tid
        /\ \A c \in DefaultAgents : started[c] = << >>

(***************************************************************************)
(* Properties of the workers                                               *)
(***************************************************************************)
\* The step ends the processing of task t by agent a's worker
Ends(a, t) ==
    /\ t \notin DOMAIN processed
    /\ t \in DOMAIN processed'
    /\ processed'[t].agent_id = a

\* C12: when the behaviour of a task raised, the step that ends the task
\* leaves the task's instance in state error with its error counter one
\* higher, and the agent's metrics with one more failed request and no more
\* successful requests.
C12_BehaviourFailureRecorded ==
    [][\A a \in DefaultAgents : \A t \in 1..MaxTasks :
        (Ends(a, t) /\ processed'[t].failure = "behaviour") =>
            LET i == worker[a].task[1].instance_id IN
            /\ i \in DOMAIN instances =>
                  /\ instances'[i].status = "error"
                  /\ instances'[i].error_count = instances[i].error_count + 1
            /\ metrics'[a].failed_requests = metrics[a].failed_requests + 1
            /\ metrics'[a].successful_requests = metrics[a].successful_requests]_vars

\* C14: for every task that failed in the worker, an event of type error for
\* the task's session has been sent.
C14_FailurePublished ==
    \A t \in DOMAIN processed :
        processed[t].failure # "none" =>
            \E n \in DOMAIN processed[t].events :
                /\ processed[t].events[n].type = "error"
                /\ processed[t].session = Some(processed[t].events[n].session_id)

\* Task t waits in agent a's queue
Waiting(a, t) == \E n \in DOMAIN agent_queues[a] : agent_queues[a][n].tid = t

\* C13: no worker ever leaves its loop, whatever happened to the tasks before;
\* and every task that waits in an agent's queue is eventually taken and
\* processed by the agent's worker, also behind tasks that failed.
C13_WorkerSurvivesFailure ==
    /\ [](\A a \in DefaultAgents : worker[a].pc \in {"get", "execute", "pause"})
    /\ \A a \in DefaultAgents : \A t \in 1..MaxTasks :
            Waiting(a, t) ~> (t \in DOMAIN processed)

\* A request without instance_id made the error reach the worker loop, and the
\* worker is executing the next task of its queue
C13_Witness ==
    \E a \in DefaultAgents : \E t \in DOMAIN processed :
        /\ processed[t].agent_id = a
        /\ processed[t].failure = "instance_id"
        /\ worker[a].pc = "execute"
        /\ worker[a].task[1].tid > t

\* Task t was accepted by process_message
Accepted(t) == t \in DOMAIN submitLog /\ Queued(submitLog[t])

ResultTypes == {"agent_response", "error"}

\* C15: every accepted task is eventually processed by its agent's worker, and
\* a processed accepted task has had exactly one event sent for it, of type
\* agent_response or error, for the session of the task.
C15_AcceptedEventuallyAnswered ==
    /\ [](\A t \in DOMAIN processed : Accepted(t) =>
            /\ Len(processed[t].events) = 1
            /\ processed[t].events[1].type \in ResultTypes
            /\ processed[t].events[1].session_id = submitLog[t].session_id)
    /\ \A t \in 1..MaxTasks : Accepted(t) ~> (t \in DOMAIN processed)

\* Two accepted tasks were answered, one of them after its behaviour raised
C15_Witness ==
    \E t, u \in DOMAIN processed :
        /\ Accepted(t) /\ Accepted(u)
        /\ processed[t].failure = "behaviour"
        /\ processed[u].failure = "none"
        /\ Len(processed[t].events) = 1 /\ Len(processed[u].events) = 1

(***************************************************************************)
(* Notification fanout (websocket_manager.py)                              *)
(***************************************************************************)
MaxPubs == 2     \* calls of send_message in one behaviour
MaxConns == 2    \* WebSocket connections accepted in one behaviour
MaxQueues == 2   \* queues handed out by subscribe in one behaviour
MaxFanout == 5   \* calls, connections and queues of one behaviour together

\* Room for n more calls, connections or queues
Room(n) == Len(pubs) + Len(ws_conns) + Len(sse_queues) + n <= MaxFanout

FanoutSessions == {1, 2}

\* The elements of a list
Range(seq) == {seq[n] : n \in DOMAIN seq}

\* The queues subscribed to a session
SubscribersOf(subs, session_id) ==
    IF session_id \in DOMAIN subs THEN Range(subs[session_id]) ELSE {}

\* _publish_sse, lines 237-246: the event is put on every queue in the list of
\* the session, if the session has one. The queues are unbounded, so no put
\* suspends or fails and the loop runs in one piece
PublishSse(queues, subs, session_id, event) ==
    [q \in DOMAIN queues |->
        IF q \in SubscribersOf(subs, session_id)
        THEN Append(queues[q], event)
        ELSE queues[q]]

\* One call of send_message: the event is numbered by the call; conn is the
\* WebSocket the call found for the session (0: none); at_call are the queues
\* subscribed to the session when the call was made
Pub(session_id, pc, conn, outcome) ==
    [session_id |-> session_id, pc |-> pc, conn |-> conn, outcome |-> outcome,
     at_call |-> SubscribersOf(sse_subscribers, session_id)]

\* send_message, lines 78-92, up to the first suspension: with a connection
\* for the session the call suspends in websocket.send_text; without one it
\* publishes to the queues at once. pubs2 is the list of calls the new call is
\* appended to
SendMessage(session_id) ==
    /\ Len(pubs) < MaxPubs
    /\ Room(1)
    /\ IF session_id \in DOMAIN active_connections
       THEN /\ pubs' = Append(pubs, Pub(session_id, "sending",
                                        active_connections[session_id], ""))
            /\ UNCHANGED sse_queues
       ELSE /\ pubs' = Append(pubs, Pub(session_id, "done", 0, "published"))
            /\ sse_queues' = PublishSse(sse_queues, sse_subscribers, session_id,
                                        Len(pubs) + 1)
    /\ lastCall' = NoCall
    /\ UNCHANGED <<active_connections, ws_conns, sse_subscribers>>

\* The sends on one WebSocket end in the order in which they were started
OldestOn(k) ==
    \A j \in 1..(k - 1) : ~(pubs[j].pc = "sending" /\ pubs[j].conn = pubs[k].conn)

\* Lines 81-97 after websocket.send_text: when it returned, line 92 publishes
\* to the queues; when it raised, control is in the except branch and line 92
\* is not run
AfterSend(ok, queues, subs, session_id, event) ==
    IF ok THEN PublishSse(queues, subs, session_id, event) ELSE queues

\* websocket.send_text returned (ok) or raised. A closed connection only
\* raises. On the error, disconnect(session_id) drops whatever connection the
\* session has by then
SendDone(k, ok) ==
    /\ k \in DOMAIN pubs
    /\ pubs[k].pc = "sending"
    /\ OldestOn(k)
    /\ ok => ws_conns[pubs[k].conn].state = "open"
    /\ LET c == pubs[k].conn
           sid == pubs[k].session_id
       IN /\ ws_conns' = [ws_conns EXCEPT ![c] =
                IF ok THEN [@ EXCEPT !.received = Append(@, k)]
                ELSE [@ EXCEPT !.state = "closed"]]
          /\ sse_queues' = AfterSend(ok, sse_queues, sse_subscribers, sid, k)
          /\ active_connections' = IF ok THEN active_connections
                                   ELSE DictDel(active_connections, sid)
          /\ pubs' = [pubs EXCEPT ![k].pc = "done",
                                  ![k].outcome = IF ok THEN "published" ELSE "send_failed"]
    /\ lastCall' = NoCall
    /\ UNCHANGED sse_subscribers

\* connect, lines 34-48: the WebSocket is accepted and stored under the
\* session, in place of any other, and the welcome message is sent with
\* send_message
Connect(session_id) ==
    /\ Len(ws_conns) < MaxConns
    /\ Len(pubs) < MaxPubs
    /\ Room(2)
    /\ ws_conns' = Append(ws_conns, [session_id |-> session_id, state |-> "open",
                                     received |-> << >>])
    /\ active_connections' = DictSet(active_connections, session_id, Len(ws_conns) + 1)
    /\ pubs' = Append(pubs, Pub(session_id, "sending", Len(ws_conns) + 1, ""))
    /\ lastCall' = NoCall
    /\ UNCHANGED <<sse_subscribers, sse_queues>>

\* The endpoint of connection c is past connect and waits in receive_text
InReceiveLoop(c) == \E k \in DOMAIN pubs : pubs[k].conn = c /\ pubs[k].pc = "done"

\* The client of connection c goes away. An endpoint that waits in receive_text
\* gets WebSocketDisconnect and calls disconnect(session_id), lines 61-64,
\* which drops whatever connection the session has. An endpoint that is still
\* in connect sees it when the welcome send raises
ClientLeaves(c) ==
    /\ c \in DOMAIN ws_conns
    /\ ws_conns[c].state = "open"
    /\ ws_conns' = [ws_conns EXCEPT ![c].state = "closed"]
    /\ active_connections' =
            IF InReceiveLoop(c)
            THEN DictDel(active_connections, ws_conns[c].session_id)
            ELSE active_connections
    /\ lastCall' = NoCall
    /\ UNCHANGED <<sse_subscribers, sse_queues, pubs>>

\* subscribe, lines 207-210: a new queue at the end of the session's list
Subscribe(session_id) ==
    /\ Len(sse_queues) < MaxQueues
    /\ Room(1)
    /\ sse_queues' = Append(sse_queues, << >>)
    /\ sse_subscribers' = DictSet(sse_subscribers, session_id,
            Append(IF session_id \in DOMAIN sse_subscribers
                   THEN sse_subscribers[session_id] ELSE << >>,
                   Len(sse_queues) + 1))
    /\ lastCall' = NoCall
    /\ UNCHANGED <<active_connections, ws_conns, pubs>>

\* A removal that takes the last queue of the list when the handle is not in it.
RemoveOrPop(list, queue) ==
    IF queue \in Range(list)
    THEN SelectSeq(list, LAMBDA x : x # queue)
    ELSE SubSeq(list, 1, Len(list) - 1)

\* Lines 222-223: the handle is removed from the list if it is in it
RemoveQueue(list, queue) == SelectSeq(list, LAMBDA x : x # queue)

\* unsubscribe, lines 219-228, with a queue that subscribe handed out
Unsubscribe(session_id, queue) ==
    /\ queue \in DOMAIN sse_queues
    /\ sse_subscribers' =
        IF session_id \in DOMAIN sse_subscribers
        THEN LET rest == RemoveQueue(sse_subscribers[session_id], queue)
             IN IF rest = << >> THEN DictDel(sse_subscribers, session_id)
                ELSE [sse_subscribers EXCEPT ![session_id] = rest]
        ELSE sse_subscribers
    /\ lastCall' = [kind |-> "unsubscribe", session_id |-> session_id, queue |-> queue]
    /\ UNCHANGED <<active_connections, ws_conns, sse_queues, pubs>>

NextFanout ==
    \/ \E sid \in FanoutSessions : SendMessage(sid) /\ UNCHANGED <<dvars, svars, mvars, rvars, pvars, bvars>>
    \/ \E k \in 1..MaxPubs, ok \in BOOLEAN : SendDone(k, ok) /\ UNCHANGED <<dvars, svars, mvars, rvars, pvars, bvars>>
    \/ \E sid \in FanoutSessions : Connect(sid) /\ UNCHANGED <<dvars, svars, mvars, rvars, pvars, bvars>>
    \/ \E c \in 1..MaxConns : ClientLeaves(c) /\ UNCHANGED <<dvars, svars, mvars, rvars, pvars, bvars>>
    \/ \E sid \in FanoutSessions : Subscribe(sid) /\ UNCHANGED <<dvars, svars, mvars, rvars, pvars, bvars>>
    \/ \E sid \in FanoutSessions, q \in 1..MaxQueues :
            Unsubscribe(sid, q) /\ UNCHANGED <<dvars, svars, mvars, rvars, pvars, bvars>>

FanoutSpec == Init /\ [][NextFanout]_vars

\* Call k of send_message ends in this step
Completes(k) ==
    /\ k \in DOMAIN pubs'
    /\ pubs'[k].pc = "done"
    /\ k \in DOMAIN pubs => pubs[k].pc = "sending"

\* The place of event e in a list of events (0: not in it)
PlaceOf(events, e) ==
    IF \E n \in DOMAIN events : events[n] = e
    THEN CHOOSE n \in DOMAIN events : events[n] = e
    ELSE 0

\* How often event e is in a list of events
Copies(events, e) == Cardinality({n \in DOMAIN events : events[n] = e})

\* Every queue subscribed to some session
AllSubscribed == UNION {Range(sse_subscribers[s]) : s \in DOMAIN sse_subscribers}

\* C16: a send_message for a session puts the event once on the session's
\* WebSocket, if it has one that takes the send, and once on every queue
\* subscribed to the session since the call; the queues and WebSockets of
\* other sessions get nothing.
C16_DeliversToEverySubscriber ==
    [][\A k \in 1..MaxPubs : Completes(k) =>
        LET p == pubs'[k]
            live == p.at_call \cap SubscribersOf(sse_subscribers, p.session_id)
        IN /\ \A q \in live : sse_queues'[q] = Append(sse_queues[q], k)
           /\ \A q \in DOMAIN sse_queues :
                q \notin SubscribersOf(sse_subscribers, p.session_id)
                    => sse_queues'[q] = sse_queues[q]
           /\ \A q \in DOMAIN sse_queues' : Copies(sse_queues'[q], k) <= 1
           /\ \A c \in DOMAIN ws_conns :
                ws_conns'[c].received =
                    IF c = p.conn /\ p.outcome = "published"
                    THEN Append(ws_conns[c].received, k)
                    ELSE ws_conns[c].received]_vars

\* C17: when the send on the session's WebSocket raises, the same
\* send_message still puts the event on every queue subscribed to the session.
C17_FailureDoesNotBlockOthers ==
    [][\A k \in 1..MaxPubs :
        (Completes(k) /\ pubs'[k].outcome = "send_failed") =>
            \A q \in SubscribersOf(sse_subscribers, pubs'[k].session_id) :
                sse_queues'[q] = Append(sse_queues[q], k)]_vars

\* C18: of two events sent for the same session, a queue that was subscribed
\* to the session before the first call and holds both holds the first one
\* ahead of the second.
C18_FifoPerSubscriber ==
    \A k1 \in DOMAIN pubs, k2 \in DOMAIN pubs :
        (k1 < k2 /\ pubs[k1].session_id = pubs[k2].session_id) =>
            \A q \in pubs[k1].at_call :
                (PlaceOf(sse_queues[q], k1) > 0 /\ PlaceOf(sse_queues[q], k2) > 0)
                    => PlaceOf(sse_queues[q], k1) < PlaceOf(sse_queues[q], k2)

\* C19: an unsubscribe with a queue that is not in the list of the session
\* leaves the subscriber map as it was; an unsubscribe with a queue of the list
\* takes it out; a queue in no list gets no further event; and no session is
\* in the map with an empty list.
C19_UnsubscribeIdempotent ==
    /\ [][lastCall'.kind = "unsubscribe" =>
            IF lastCall'.queue \in SubscribersOf(sse_subscribers, lastCall'.session_id)
            THEN /\ lastCall'.queue \notin SubscribersOf(sse_subscribers', lastCall'.session_id)
                 /\ \A s \in FanoutSessions :
                        SubscribersOf(sse_subscribers', s) =
                            SubscribersOf(sse_subscribers, s) \ {lastCall'.queue}
            ELSE sse_subscribers' = sse_subscribers]_vars
    /\ [][\A q \in DOMAIN sse_queues :
            q \notin AllSubscribed => sse_queues'[q] = sse_queues[q]]_vars
    /\ [](\A s \in DOMAIN sse_subscribers : sse_subscribers[s] # << >>)

\* The last call was an unsubscribe for a session that has subscribers, with
\* the queue of a subscriber of another session
C19_Witness ==
    /\ lastCall.kind = "unsubscribe"
    /\ lastCall.session_id \in DOMAIN sse_subscribers
    /\ \E s \in DOMAIN sse_subscribers :
            /\ s # lastCall.session_id
            /\ lastCall.queue \in Range(sse_subscribers[s])

(***************************************************************************)
(* Further properties of the MCP specification                             *)
(***************************************************************************)
\* Call k is a restart_server that returns in this step because the start of
\* the new process failed
RestartFails(k) ==
    /\ k \in DOMAIN ops'
    /\ ops'[k].kind = "restart"
    /\ ops'[k].pc = "done"
    /\ ops'[k].outcome = "start_failed"
    /\ k \in DOMAIN ops => ops[k].pc # "done"

\* C20: when restart_server returns because the start of the new process
\* failed, neither the server map nor the tool index has an entry for the name.
C20_FailedRestartLeavesAbsent ==
    [][\A k \in 1..MaxOps : RestartFails(k) =>
        /\ ops'[k].name \notin DOMAIN mcp_servers'
        /\ OwnedBy(mcp_tools', ops'[k].name) = {}]_vars

\* Call k is an add_server that returns in this step because the start of the
\* process failed
AddFails(k) ==
    /\ k \in DOMAIN ops'
    /\ ops'[k].kind = "add"
    /\ ops'[k].pc = "done"
    /\ ops'[k].outcome = "start_failed"
    /\ k \in DOMAIN ops => ops[k].pc # "done"

\* Call k is an add_server whose start is on its way to fail in this step
AddFailing(k) ==
    /\ k \in DOMAIN ops /\ ops[k].kind = "add"
    /\ ops[k].pc = "settle" /\ ops'[k].pc = "start_failed"

\* The three maps of the manager
mcp_maps == <<mcp_servers, mcp_tools, server_configs>>

\* C21: an add_server whose process fails to start returns False; none of its
\* steps from the failure on changes the server map, the tool index or the
\* configurations; and the process it spawned, if any, is stopped when it
\* returns.
C21_FailedAddLeavesRegistry ==
    [][\A k \in 1..MaxOps :
        /\ AddFailing(k) => mcp_maps' = mcp_maps
        /\ AddFails(k) =>
            /\ ~ops'[k].result
            /\ mcp_maps' = mcp_maps
            /\ ops'[k].name \in DOMAIN mcp_servers' =>
                    mcp_servers'[ops'[k].name] # ops'[k].pid
            /\ ops'[k].pid # 0 =>
                /\ ~mcp_procs'[ops'[k].pid].handle
                /\ ~mcp_procs'[ops'[k].pid].is_running]_vars

\* Beside a registered server with a tool, an add_server has spawned a
\* process, found it dead after the sleep, and returned the failure
C21_Witness ==
    /\ mcp_servers # EmptyDict
    /\ mcp_tools # EmptyDict
    /\ \E k \in DOMAIN ops :
        /\ ops[k].kind = "add" /\ ops[k].pc = "done"
        /\ ops[k].outcome = "start_failed" /\ ops[k].pid # 0
        /\ ops[k].name \notin DOMAIN mcp_servers

(***************************************************************************)
(* One tool process: MCPServerProcess._call_tool_stdio and stop            *)
(***************************************************************************)
MaxCalls == 2    \* calls of _call_tool_stdio on the process in one behaviour
MaxStops == 2    \* calls of stop() on the process in one behaviour

\* A list without its entries equal to x
Without(list, x) == SelectSeq(list, LAMBDA y : y # x)

ToolCallRecord(pc, outcome, got) == [pc |-> pc, outcome |-> outcome, got |-> got]

\* _call_tool_stdio, lines 174-196, up to the suspension in wait_for: without
\* a handle RuntimeError is raised; the request, numbered by the call (its
\* uuid), is written to the child's input, which fails on a child that is
\* gone; then a thread is started that blocks in stdout.readline
ToolCall ==
    /\ Len(tool_calls) < MaxCalls
    /\ IF ~process
       THEN /\ tool_calls' = Append(tool_calls, ToolCallRecord("done", "ProcessNotAvailable", 0))
            /\ UNCHANGED <<stdin, readers>>
       ELSE IF child # "running"
       THEN /\ tool_calls' = Append(tool_calls, ToolCallRecord("done", "BrokenPipe", 0))
            /\ UNCHANGED <<stdin, readers>>
       ELSE /\ tool_calls' = Append(tool_calls, ToolCallRecord("reading", "", 0))
            /\ stdin' = Append(stdin, Len(tool_calls) + 1)
            /\ readers' = Append(readers, Len(tool_calls) + 1)
    /\ UNCHANGED <<process, is_running, child, stop_calls, stdout>>

\* The child takes the oldest request and writes the response to it, with the
\* id of the request, as one line
ChildAnswers ==
    /\ child = "running"
    /\ stdin # << >>
    /\ stdout' = Append(stdout, Head(stdin))
    /\ stdin' = Tail(stdin)
    /\ UNCHANGED <<process, is_running, child, stop_calls, tool_calls, readers>>

\* The thread started by call r gets the next line of the child's output.
\* Which of several threads blocked in readline on the one stream gets it is
\* not determined by the program. Lines 198-201: the call, if it still waits,
\* returns the result of that line without looking at its id; the thread of a
\* call that has timed out drops the line
ReaderGets(r) ==
    /\ r \in Range(readers)
    /\ stdout # << >>
    /\ stdout' = Tail(stdout)
    /\ readers' = Without(readers, r)
    /\ tool_calls' = IF tool_calls[r].pc = "reading"
                     THEN [tool_calls EXCEPT ![r] = ToolCallRecord("done", "result", Head(stdout))]
                     ELSE tool_calls
    /\ UNCHANGED <<process, is_running, child, stop_calls, stdin>>

\* The output of a child that is gone is at its end: readline returns an
\* empty line, lines 206-207
ReaderEof(r) ==
    /\ r \in Range(readers)
    /\ stdout = << >>
    /\ child # "running"
    /\ readers' = Without(readers, r)
    /\ tool_calls' = IF tool_calls[r].pc = "reading"
                     THEN [tool_calls EXCEPT ![r] = ToolCallRecord("done", "ProcessTerminated", 0)]
                     ELSE tool_calls
    /\ UNCHANGED <<process, is_running, child, stop_calls, stdin, stdout>>

\* wait_for gives up, lines 193-196 and 209-211: the call raises TimeoutError;
\* the thread stays blocked in readline and the request stays with the child
ToolCallTimeout(k) ==
    /\ k \in DOMAIN tool_calls
    /\ tool_calls[k].pc = "reading"
    /\ tool_calls' = [tool_calls EXCEPT ![k] = ToolCallRecord("done", "ToolTimeout", 0)]
    /\ UNCHANGED <<process, is_running, child, stop_calls, stdin, stdout, readers>>

\* The child exits on its own
ChildExits ==
    /\ child = "running"
    /\ child' = "exited"
    /\ UNCHANGED <<process, is_running, stop_calls, tool_calls, stdin, stdout, readers>>

StopRecord(pc, outcome) == [pc |-> pc, outcome |-> outcome]

\* A stop() that keeps the handle of a child it had to kill.
AfterStopKeepsKilled(outcome) ==
    [process |-> outcome = "killed", is_running |-> FALSE]

\* stop(), lines 240-242: the handle is released and is_running is False
AfterStop(outcome) == [process |-> FALSE, is_running |-> FALSE]

\* stop(), lines 226-234, up to the suspension in wait_for: with a handle the
\* child is sent SIGTERM; without one only line 242 is left to run
StopCall ==
    /\ Len(stop_calls) < MaxStops
    /\ IF process
       THEN /\ stop_calls' = Append(stop_calls, StopRecord("waiting", ""))
            /\ UNCHANGED is_running
       ELSE /\ stop_calls' = Append(stop_calls, StopRecord("done", "nothing"))
            /\ is_running' = FALSE
    /\ UNCHANGED <<process, child, tool_calls, stdin, stdout, readers>>

\* The wait of lines 231-234 returns within the grace period: the child has
\* exited, on the signal or before it
StopWaited(k) ==
    /\ k \in DOMAIN stop_calls
    /\ stop_calls[k].pc = "waiting"
    /\ child' = IF child = "running" THEN "exited" ELSE child
    /\ process' = AfterStop("exited").process
    /\ is_running' = AfterStop("exited").is_running
    /\ stop_calls' = [stop_calls EXCEPT ![k] = StopRecord("done", "exited")]
    /\ UNCHANGED <<tool_calls, stdin, stdout, readers>>

\* The grace period ends with the child still running, lines 235-238: the
\* child is killed through the handle and waited for; a handle that another
\* stop() has released meanwhile raises AttributeError, caught at line 245
StopGraceOver(k) ==
    /\ k \in DOMAIN stop_calls
    /\ stop_calls[k].pc = "waiting"
    /\ child = "running"
    /\ IF process
       THEN /\ child' = "killed"
            /\ stop_calls' = [stop_calls EXCEPT ![k] = StopRecord("killing", "")]
       ELSE /\ stop_calls' = [stop_calls EXCEPT ![k] = StopRecord("done", "error")]
            /\ UNCHANGED child
    /\ UNCHANGED <<process, is_running, tool_calls, stdin, stdout, readers>>

\* The wait of line 238 returns
StopKilled(k) ==
    /\ k \in DOMAIN stop_calls
    /\ stop_calls[k].pc = "killing"
    /\ process' = AfterStop("killed").process
    /\ is_running' = AfterStop("killed").is_running
    /\ stop_calls' = [stop_calls EXCEPT ![k] = StopRecord("done", "killed")]
    /\ UNCHANGED <<child, tool_calls, stdin, stdout, readers>>

NextProcess ==
    \/ ToolCall /\ UNCHANGED <<dvars, svars, mvars, fvars, rvars, bvars>>
    \/ ChildAnswers /\ UNCHANGED <<dvars, svars, mvars, fvars, rvars, bvars>>
    \/ \E r \in 1..MaxCalls : ReaderGets(r) /\ UNCHANGED <<dvars, svars, mvars, fvars, rvars, bvars>>
    \/ \E r \in 1..MaxCalls : ReaderEof(r) /\ UNCHANGED <<dvars, svars, mvars, fvars, rvars, bvars>>
    \/ \E k \in 1..MaxCalls : ToolCallTimeout(k) /\ UNCHANGED <<dvars, svars, mvars, fvars, rvars, bvars>>
    \/ ChildExits /\ UNCHANGED <<dvars, svars, mvars, fvars, rvars, bvars>>
    \/ StopCall /\ UNCHANGED <<dvars, svars, mvars, fvars, rvars, bvars>>
    \/ \E k \in 1..MaxStops : StopWaited(k) /\ UNCHANGED <<dvars, svars, mvars, fvars, rvars, bvars>>
    \/ \E k \in 1..MaxStops : StopGraceOver(k) /\ UNCHANGED <<dvars, svars, mvars, fvars, rvars, bvars>>
    \/ \E k \in 1..MaxStops : StopKilled(k) /\ UNCHANGED <<dvars, svars, mvars, fvars, rvars, bvars>>

ProcessSpec == Init /\ [][NextProcess]_vars

\* The calls that have written their request and wait for their response
InFlight == {k \in DOMAIN tool_calls : tool_calls[k].pc = "reading"}

\* C22: at most one call is waiting for a response of the process at a time,
\* and a call that returns a result returns the response to its own request.
C22_ResponseMatchesRequest ==
    /\ Cardinality(InFlight) <= 1
    /\ \A k \in DOMAIN tool_calls :
            tool_calls[k].outcome = "result" => tool_calls[k].got = k

\* Call k of stop() returns in this step
StopReturns(k) ==
    /\ k \in DOMAIN stop_calls'
    /\ stop_calls'[k].pc = "done"
    /\ k \in DOMAIN stop_calls => stop_calls[k].pc # "done"

\* C23: when a call of stop() returns, the handle is released and is_running
\* is False, and they stay so; a stop() of a process that is stopped already
\* returns at once, without an error, and changes no field of the process.
C23_StopReleases ==
    /\ [][\A k \in 1..MaxStops : StopReturns(k) =>
            /\ ~process' /\ ~is_running'
            /\ (~process /\ ~is_running /\ k \notin DOMAIN stop_calls) =>
                    /\ stop_calls'[k].outcome = "nothing"
                    /\ <<process', is_running', child'>> = <<process, is_running, child>>]_vars
    /\ []((\E k \in DOMAIN stop_calls : stop_calls[k].pc = "done")
            => ~process /\ ~is_running)

\* One stop() had to kill the child, and a later stop() found the process
\* stopped
C23_Witness ==
    /\ child = "killed"
    /\ \E k \in DOMAIN stop_calls : stop_calls[k].outcome = "killed"
    /\ \E k \in DOMAIN stop_calls : stop_calls[k].outcome = "nothing"

(***************************************************************************)
(* The agent registry: create_custom_agent                                 *)
(***************************************************************************)
MaxCreates == 2  \* calls of create_custom_agent in one behaviour

CustomAgent == "custom_agent"

\* The ids that callers of create_custom_agent pass
AgentIds == DefaultAgents \cup {CustomAgent}

\* A check that finds no id taken.
AgentNeverExists(agent_id, registry) == FALSE

\* Line 691
AgentExists(agent_id, registry) == agent_id \in registry

\* create_custom_agent, lines 689-704: an id that is in self.agents raises
\* ValueError; a new one gets a descriptor, a metrics record and a queue, and
\* no entry in worker_tasks
CreateCustomAgent(agent_id) ==
    /\ Len(createLog) < MaxCreates
    /\ IF AgentExists(agent_id, agents)
       THEN /\ createLog' = Append(createLog, [agent_id |-> agent_id, outcome |-> "exists"])
            /\ UNCHANGED <<agents, metrics, agent_queues>>
       ELSE /\ createLog' = Append(createLog, [agent_id |-> agent_id, outcome |-> "created"])
            /\ agents' = agents \cup {agent_id}
            /\ metrics' = DictSet(metrics, agent_id, NewMetrics)
            /\ agent_queues' = DictSet(agent_queues, agent_id, << >>)
    /\ UNCHANGED <<instances, session_agents, worker, pending, sessions, nextInstance,
                   nextTask, submitLog, started, removedLog, lastSweep, processed,
                   shutdown>>

NextRegistry ==
    \/ NextWorker
    \/ \E id \in AgentIds : CreateCustomAgent(id) /\ UNCHANGED <<svars, mvars, fvars, pvars, bvars>>

RegistrySpec == Init /\ [][NextRegistry]_vars

\* The step is a call of create_custom_agent
Creates == Len(createLog') = Len(createLog) + 1

\* C24: create_custom_agent with an id that has a descriptor fails and leaves
\* the registry, the metrics and the queues as they were; with a new id it
\* adds the id to the registry, a fresh metrics record and an empty queue for
\* it, and changes no other entry.
C24_UniqueAgentIds ==
    [][Creates =>
        LET e == createLog'[Len(createLog')] IN
        IF e.agent_id \in agents
        THEN /\ e.outcome = "exists"
             /\ <<agents', metrics', agent_queues'>> = <<agents, metrics, agent_queues>>
        ELSE /\ e.outcome = "created"
             /\ agents' = agents \cup {e.agent_id}
             /\ DOMAIN metrics' = DOMAIN metrics \cup {e.agent_id}
             /\ DOMAIN agent_queues' = DOMAIN agent_queues \cup {e.agent_id}
             /\ metrics'[e.agent_id] = NewMetrics
             /\ agent_queues'[e.agent_id] = << >>
             /\ \A a \in DOMAIN metrics \ {e.agent_id} : metrics'[a] = metrics[a]
             /\ \A a \in DOMAIN agent_queues \ {e.agent_id} :
                    agent_queues'[a] = agent_queues[a]]_vars

\* A call for the id of an agent that has counted a request and has a request
\* waiting has failed, and a call for a new id has created the agent
C24_Witness ==
    /\ \E n \in DOMAIN createLog :
        /\ createLog[n].outcome = "exists"
        /\ metrics[createLog[n].agent_id].total_requests > 0
        /\ agent_queues[createLog[n].agent_id] # << >>
    /\ \E n \in DOMAIN createLog : createLog[n].outcome = "created"

\* C25: every agent of the registry has a worker.
C25_WorkerPerAgent == agents \subseteq DOMAIN worker

\* The worker of agent a ends the processing of a request in this step: the
\* behaviour has returned, or the request lacked a key
WorkerEndsTask(a) ==
    /\ a \in DOMAIN worker
    /\ \/ worker[a].pc = "execute" /\ worker'[a].pc = "get"
       \/ /\ worker[a].pc = "get" /\ agent_queues[a] # << >>
          /\ agent_queues'[a] = Tail(agent_queues[a])
          /\ worker'[a].pc \in {"get", "pause"}
          /\ Head(agent_queues[a]).tid \in DOMAIN processed'

\* C30: every agent of the registry has a metrics record, from the step that
\* adds the agent on, and no record is ever deleted; a record changes only in
\* a step in which the agent's own worker ends a request, and then by one more
\* request and one more success or one more failure; so the requests of every
\* record are its successes plus its failures.
C30_MetricsIntegrity ==
    /\ [](agents \subseteq DOMAIN metrics)
    /\ [](\A a \in DOMAIN metrics :
            metrics[a].total_requests =
                metrics[a].successful_requests + metrics[a].failed_requests)
    /\ [][/\ DOMAIN metrics \subseteq DOMAIN metrics'
          /\ \A a \in DOMAIN metrics' \ DOMAIN metrics :
                a \in agents' \ agents /\ metrics'[a] = NewMetrics
          /\ \A a \in DOMAIN metrics :
                /\ metrics'[a] # metrics[a] =>
                    /\ WorkerEndsTask(a)
                    /\ metrics'[a].total_requests = metrics[a].total_requests + 1
                    /\ \/ /\ metrics'[a].successful_requests = metrics[a].successful_requests + 1
                          /\ metrics'[a].failed_requests = metrics[a].failed_requests
                       \/ /\ metrics'[a].successful_requests = metrics[a].successful_requests
                          /\ metrics'[a].failed_requests = metrics[a].failed_requests + 1
                /\ WorkerEndsTask(a) => metrics'[a] # metrics[a]]_vars

\* An agent has counted a success and a failure, and a created agent has its
\* record
C30_Witness ==
    /\ \E a \in DOMAIN metrics :
            metrics[a].successful_requests > 0 /\ metrics[a].failed_requests > 0
    /\ CustomAgent \in agents /\ CustomAgent \in DOMAIN metrics

(***************************************************************************)
(* Queue isolation                                                         *)
(***************************************************************************)
\* The event loop runs the worker of the browser specialist whenever it can
\* run and its behaviour returns in the end; nothing is assumed of the other
\* workers, whose requests may hang for ever
IsolatedWorkerSpec ==
    /\ WorkerSpec
    /\ WF_vars(WorkerTake(BrowserSpecialist) /\ UNCHANGED <<svars, mvars, fvars, rvars, pvars, bvars>>)
    /\ WF_vars(WorkerTakeMalformed(BrowserSpecialist) /\ UNCHANGED <<svars, mvars, fvars, rvars, pvars, bvars>>)
    /\ WF_vars(WorkerResume(BrowserSpecialist) /\ UNCHANGED <<svars, mvars, fvars, rvars, pvars, bvars>>)
    /\ WF_vars((\E b \in Behaviours : WorkerFinish(BrowserSpecialist, b))
                    /\ UNCHANGED <<svars, mvars, fvars, rvars, pvars, bvars>>)

\* The worker of agent a has taken request t from its queue
Taken(a, t) ==
    \/ \E n \in DOMAIN started[a] : started[a][n] = t
    \/ t \in DOMAIN processed /\ processed[t].agent_id = a

\* C26: every request that waits in the queue of the browser specialist is
\* eventually taken by its worker, whatever the workers and queues of the
\* other agents do.
C26_QueueIsolation ==
    \A t \in 1..MaxTasks :
        Waiting(BrowserSpecialist, t) ~> Taken(BrowserSpecialist, t)

\* The general assistant is inside a request, and the browser specialist has
\* processed a request that came in later
C26_Witness ==
    /\ worker[GeneralAssistant].pc = "execute"
    /\ \E t \in DOMAIN processed :
        /\ processed[t].agent_id = BrowserSpecialist
        /\ worker[GeneralAssistant].task[1].tid < t

(***************************************************************************)
(* Shutdown: AgentManager.cleanup                                          *)
(***************************************************************************)
\* cleanup(), lines 710-715, up to the suspension in gather: task.cancel() is
\* called on every worker task. A cancelled task takes no further step of its
\* own: the next time the event loop runs it, CancelledError is raised at the
\* await it is suspended in
CleanupCall ==
    /\ shutdown = "no"
    /\ shutdown' = "cancelling"
    /\ worker' = [a \in DOMAIN worker |-> [worker[a] EXCEPT !.pc = "cancelling"]]
    /\ lastSweep' = "none"
    /\ UNCHANGED <<instances, session_agents, agent_queues, metrics, pending,
                   sessions, nextInstance, nextTask, submitLog, started,
                   removedLog, processed, agents, createLog>>

\* CancelledError is raised in the worker of agent a, at queue.get(), at the
\* sleep of line 307 or inside _process_agent_request. It is not an Exception,
\* so none of the handlers at lines 305, 354 and 402 catches it: the task ends
\* where it is, and what it had in hand stays as it is
WorkerCancelled(a) ==
    /\ worker[a].pc = "cancelling"
    /\ worker' = [worker EXCEPT ![a].pc = "cancelled"]
    /\ lastSweep' = "none"
    /\ UNCHANGED <<instances, session_agents, agent_queues, metrics, pending,
                   sessions, nextInstance, nextTask, submitLog, started,
                   removedLog, processed, agents, createLog, shutdown>>

\* gather, line 715, returns when every worker task has ended
CleanupReturn ==
    /\ shutdown = "cancelling"
    /\ \A a \in DOMAIN worker : worker[a].pc = "cancelled"
    /\ shutdown' = "done"
    /\ lastSweep' = "none"
    /\ UNCHANGED <<instances, session_agents, agent_queues, metrics, worker, pending,
                   sessions, nextInstance, nextTask, submitLog, started,
                   removedLog, processed, agents, createLog>>

NextShutdown ==
    \/ NextWorker
    \/ CleanupCall /\ UNCHANGED <<svars, mvars, fvars, pvars, bvars>>
    \/ \E a \in DefaultAgents : WorkerCancelled(a) /\ UNCHANGED <<svars, mvars, fvars, pvars, bvars>>
    \/ CleanupReturn /\ UNCHANGED <<svars, mvars, fvars, pvars, bvars>>

ShutdownSpec == Init /\ [][NextShutdown]_vars

\* C27: a worker that has stopped has no request in hand; and when cleanup
\* has returned, every worker has stopped and no instance is busy.
C27_CancelBetweenTasks ==
    /\ \A a \in DOMAIN worker :
            worker[a].pc = "cancelled" => worker[a].task = None
    /\ shutdown = "done" =>
            /\ \A a \in DOMAIN worker : worker[a].pc = "cancelled"
            /\ \A i \in DOMAIN instances : instances[i].status # "busy"

(***************************************************************************)
(* Further properties of the tool registry                                 *)
(***************************************************************************)
\* Call k of call_tool ends in this step with an empty read: the process has
\* terminated
DetectsTermination(k) ==
    /\ k \in DOMAIN ops /\ ops[k].kind = "call" /\ ops[k].pc = "reading"
    /\ ops'[k].pc = "done" /\ ops'[k].outcome = "ProcessTerminated"

\* C28: when a call finds that a process with auto_restart set has terminated,
\* a restart of the server of that process is started in the same step.
C28_AutoRestartTriggered ==
    [][\A k \in 1..MaxOps :
        (DetectsTermination(k) /\ mcp_procs[ops[k].pid].config.auto_restart) =>
            \E j \in DOMAIN ops' \ DOMAIN ops :
                ops'[j].kind = "restart" /\ ops'[j].name = ops[k].owner]_vars

\* Call k registers the tools of its process in this step
Registers(k) ==
    /\ k \in DOMAIN ops /\ ops[k].pc = "discover" /\ ops'[k].pc = "done"

\* The server names whose registered process is marked running and exposes
\* tool t
Exposing(t) ==
    {n \in DOMAIN mcp_servers :
        /\ mcp_procs[mcp_servers[n]].is_running
        /\ t \in mcp_procs[mcp_servers[n]].tools}

\* Two registered processes expose tool t
Collision(t) == Cardinality(Exposing(t)) >= 2

\* C29: when a process is registered, every tool it exposes gets the one
\* index entry of its name, owned by that process, whoever owned the name
\* before, and an entry is written in no other step; so the entry of a name
\* is that of the last registration exposing it. When two registered
\* processes expose a name, the process of the entry is one of them, and a
\* call of the name goes to it.
C29_LastRegistrationWins ==
    /\ [][\A k \in 1..MaxOps : Registers(k) =>
            \A t \in mcp_procs'[ops[k].pid].tools :
                /\ t \in DOMAIN mcp_tools'
                /\ mcp_tools'[t] = [server_name |-> ops[k].name, origin |-> ops[k].pid]]_vars
    /\ [][\A t \in DOMAIN mcp_tools' :
            (t \notin DOMAIN mcp_tools \/ mcp_tools'[t] # mcp_tools[t]) =>
                \E k \in 1..MaxOps :
                    /\ Registers(k)
                    /\ t \in mcp_procs'[ops[k].pid].tools
                    /\ mcp_tools'[t].origin = ops[k].pid]_vars
    /\ [](\A t \in ToolNames : Collision(t) =>
            /\ t \in DOMAIN mcp_tools
            /\ mcp_tools[t].server_name \in Exposing(t)
            /\ mcp_servers[mcp_tools[t].server_name] = mcp_tools[t].origin)
    /\ [][CallStarts =>
            LET c == ops'[Len(ops')] IN
            Collision(c.name) => c.old = mcp_tools[c.name].origin]_vars

\* A process that start() has found alive and that has discovered its tools
Running(config, tools) ==
    [NewProcess(config) EXCEPT !.is_running = TRUE, !.tools = tools]

\* MCPServerManager after initialize() with a configuration file that names
\* the servers A and B, both exposing the tool t1: _start_servers has
\* started and registered them one after the other, lines 315-324
McpConfigured ==
    /\ mcp_procs = <<Running(Config("A"), {"t1"}), Running(Config("B"), {"t1"})>>
    /\ mcp_servers = [n \in ServerNames |-> IF n = "A" THEN 1 ELSE 2]
    /\ server_configs = [n \in ServerNames |-> Config(n)]
    /\ mcp_tools = RegisterTools(RegisterTools(EmptyDict, 1, mcp_procs[1]), 2, mcp_procs[2])
    /\ ops = << >>

InitConfigured ==
    /\ DispatchIdle /\ SelIdle /\ McpConfigured /\ FanoutIdle /\ RegistryIdle
    /\ ProcessStarted /\ BroadcastIdle

ConfiguredMcpSpec == InitConfigured /\ [][NextMcp]_vars

(***************************************************************************)
(* The session mapping and the instance table                              *)
(***************************************************************************)
\* C31: under submissions, worker steps and both sweeps, every instance id
\* in the session mapping is in the instance table and is an instance of that
\* session; every instance in the table is the one its session maps to; and
\* no mapping entry names an instance the idle-expiry sweep has removed.
C31_MappingMatchesTable ==
    /\ \A s \in DOMAIN session_agents :
            /\ session_agents[s] \in DOMAIN instances
            /\ instances[session_agents[s]].session_id = s
    /\ \A i \in DOMAIN instances :
            /\ instances[i].session_id \in DOMAIN session_agents
            /\ session_agents[instances[i].session_id] = i
    /\ \A r \in Removed :
            \A s \in DOMAIN session_agents : session_agents[s] # r.instance_id

\* The sweep removed the instance of a session, the session has a new
\* instance, and a worker is executing a task
C31_Witness ==
    /\ \E r \in Removed :
            /\ r.session_id \in DOMAIN session_agents
            /\ session_agents[r.session_id] \in DOMAIN instances
    /\ \E a \in DefaultAgents : worker[a].pc = "execute"

(***************************************************************************)
(* The tool registry as its readers see it                                 *)
(***************************************************************************)
\* Every state of the model is one in which the manager's coroutines are all
\* suspended at an await or have returned, so that list_tools or call_tool
\* can run in it. The name has a server entry whose process is marked running
\* and has every tool it discovered in the index
FullyRegistered(n) ==
    /\ n \in DOMAIN mcp_servers
    /\ mcp_procs[mcp_servers[n]].is_running
    /\ mcp_procs[mcp_servers[n]].tools \subseteq DOMAIN mcp_tools

\* The name has no server entry and owns no entry of the index
FullyAbsent(n) ==
    /\ n \notin DOMAIN mcp_servers
    /\ OwnedBy(mcp_tools, n) = {}

\* A call of add_server, remove_server or restart_server for the name is
\* suspended at an await
InProgress(n) ==
    \E k \in DOMAIN ops :
        /\ ops[k].kind \in {"add", "remove", "restart"}
        /\ ops[k].name = n
        /\ ops[k].pc # "done"

\* C32: in every state in which a reader can run while an add, a removal or
\* a restart of a server name is in progress, the name is fully registered or
\* fully absent.
C32_NeverHalfApplied ==
    \A n \in ServerNames : InProgress(n) => (FullyRegistered(n) \/ FullyAbsent(n))

\* No call of add_server, remove_server or restart_server is in progress
Quiescent == \A k \in DOMAIN ops : ops[k].pc = "done"

\* The process objects that hold a child that was spawned and not stopped
Live == {pid \in DOMAIN mcp_procs : mcp_procs[pid].handle}

\* cleanup(), lines 483-484, stops the processes of the server map
StoppedByCleanup == {mcp_servers[n] : n \in DOMAIN mcp_servers}

\* C37: when no add, remove or restart is in progress, every process that was
\* spawned and has not been stopped is held by the server map under its name.
C37_NoProcessLeaked ==
    Quiescent =>
        \A pid \in Live :
            /\ pid \in StoppedByCleanup
            /\ mcp_servers[mcp_procs[pid].config.name] = pid

\* A remove_server(n) has returned True
RemovedOk(n) ==
    \E k \in DOMAIN ops :
        /\ ops[k].kind = "remove" /\ ops[k].name = n
        /\ ops[k].pc = "done" /\ ops[k].result

\* C38: the step in which remove_server(n) returns True leaves n fully absent,
\* and from a state in which a removal of n has returned True and n is absent,
\* n gets a server entry or an index entry only by the registration of an
\* add_server(n).
C38_RemovalIsFinal ==
    /\ [][\A k \in DOMAIN ops' :
            (/\ ops'[k].kind = "remove" /\ ops'[k].pc = "done" /\ ops'[k].result
             /\ (k \notin DOMAIN ops \/ ops[k].pc # "done"))
            => (ops'[k].name \notin DOMAIN mcp_servers'
                    /\ OwnedBy(mcp_tools', ops'[k].name) = {})]_vars
    /\ [][\A n \in ServerNames :
            (RemovedOk(n) /\ FullyAbsent(n) /\ ~FullyAbsent(n)')
            => \E k \in DOMAIN ops :
                    Registers(k) /\ ops[k].kind = "add" /\ ops[k].name = n]_vars

\* C39: when no add, remove or restart is in progress, every tool discovered
\* by a running process of the server map is in the index, owned by a name of
\* the server map.
C39_IndexComplete ==
    Quiescent =>
        \A n \in DOMAIN mcp_servers :
            mcp_procs[mcp_servers[n]].is_running =>
                \A t \in mcp_procs[mcp_servers[n]].tools :
                    /\ t \in DOMAIN mcp_tools
                    /\ mcp_tools[t].server_name \in DOMAIN mcp_servers

(***************************************************************************)
(* Calls in flight while their process is removed or restarted             *)
(***************************************************************************)
\* MCPServerManager after add_server has registered server A, whose process
\* exposes the tool t1
McpOneServer ==
    /\ mcp_procs = <<Running(Config("A"), {"t1"})>>
    /\ mcp_servers = [n \in {"A"} |-> 1]
    /\ server_configs = [n \in {"A"} |-> Config("A")]
    /\ mcp_tools = RegisterTools(EmptyDict, 1, mcp_procs[1])
    /\ ops = << >>

InitCallRace ==
    /\ DispatchIdle /\ SelIdle /\ McpOneServer /\ FanoutIdle /\ RegistryIdle
    /\ ProcessStarted /\ BroadcastIdle

\* Calls of the tool of server A, and removals and restarts of server A
NextCallRace ==
    \/ RemoveServer("A") /\ UNCHANGED <<dvars, svars, fvars, rvars, pvars, bvars>>
    \/ \E k \in 1..MaxOps : RemoveStopped(k) /\ UNCHANGED <<dvars, svars, fvars, rvars, pvars, bvars>>
    \/ \E ok \in BOOLEAN : RestartServer("A", ok) /\ UNCHANGED <<dvars, svars, fvars, rvars, pvars, bvars>>
    \/ \E k \in 1..MaxOps, ok \in BOOLEAN : RestartStopped(k, ok) /\ UNCHANGED <<dvars, svars, fvars, rvars, pvars, bvars>>
    \/ \E k \in 1..MaxOps, alive \in BOOLEAN : StartSettled(k, alive) /\ UNCHANGED <<dvars, svars, fvars, rvars, pvars, bvars>>
    \/ \E k \in 1..MaxOps : StartFailed(k) /\ UNCHANGED <<dvars, svars, fvars, rvars, pvars, bvars>>
    \/ \E k \in 1..MaxOps, found \in SUBSET {"t1"} :
            StartDiscovered(k, found) /\ UNCHANGED <<dvars, svars, fvars, rvars, pvars, bvars>>
    \/ CallTool("t1") /\ UNCHANGED <<dvars, svars, fvars, rvars, pvars, bvars>>
    \/ \E k \in 1..MaxOps, outcome \in {"result", "ToolInvocationError", "InvalidResponse",
                                         "ToolTimeout", "ProcessTerminated"} :
            CallReturn(k, outcome) /\ UNCHANGED <<dvars, svars, fvars, rvars, pvars, bvars>>

\* The read of lines 193-196 is bounded by the timeout of the configuration,
\* so a call that is suspended in it goes on in the end
CallRaceSpec ==
    /\ InitCallRace
    /\ [][NextCallRace]_vars
    /\ WF_vars((\E k \in 1..MaxOps, outcome \in {"result", "ToolInvocationError",
                        "InvalidResponse", "ToolTimeout", "ProcessTerminated"} :
                    CallReturn(k, outcome))
               /\ UNCHANGED <<dvars, svars, fvars, rvars, pvars, bvars>>)

\* What a call can end with: the result of the process, or an error raised to
\* the caller
CallErrors == {"ToolInvocationError", "InvalidResponse", "ToolTimeout", "ProcessTerminated"}

\* Call k of call_tool is suspended in the read
Reading(k) == k \in DOMAIN ops /\ ops[k].kind = "call" /\ ops[k].pc = "reading"

\* Call k has returned or raised
Ended(k) == k \in DOMAIN ops /\ ops[k].pc = "done"

\* A call is suspended in the read on process pid
CallInFlightOn(pid) == \E c \in DOMAIN ops : Reading(c) /\ ops[c].pid = pid

\* C33: a call suspended in its read ends, with the result or with an error
\* for its caller, and the step that ends it leaves the server map, the index,
\* the configurations and the fields of every process object as they were; a
\* removal that returns True while a call is in flight on its process leaves
\* the maps without the name and its tools, and a restart that registers its
\* new process while a call is in flight on the old one leaves the name on
\* the new process with the new tools.
C33_CallInFlightEndsCleanly ==
    /\ \A k \in 1..MaxOps : Reading(k) ~> Ended(k)
    /\ [][\A k \in DOMAIN ops :
            (Reading(k) /\ ops'[k].pc = "done") =>
                /\ ops'[k].outcome \in {"result"} \cup CallErrors
                /\ ops'[k].result = (ops'[k].outcome = "result")
                /\ <<mcp_servers', mcp_tools', server_configs'>>
                        = <<mcp_servers, mcp_tools, server_configs>>
                /\ \A pid \in DOMAIN mcp_procs :
                        ProcFrame(mcp_procs'[pid]) = ProcFrame(mcp_procs[pid])]_vars
    /\ [][\A k \in DOMAIN ops :
            (/\ ops[k].kind = "remove" /\ ops[k].pc = "stopping"
             /\ ops'[k].pc = "done" /\ ops'[k].result
             /\ CallInFlightOn(ops[k].pid)) =>
                /\ mcp_servers' = DictDel(mcp_servers, ops[k].name)
                /\ mcp_tools' = RemoveToolsOf(mcp_tools, ops[k].name)]_vars
    /\ [][\A k \in DOMAIN ops :
            (/\ ops[k].kind = "restart" /\ Registers(k)
             /\ CallInFlightOn(ops[k].old)) =>
                /\ mcp_servers' = DictSet(mcp_servers, ops[k].name, ops[k].pid)
                /\ mcp_tools' = RegisterTools(mcp_tools, ops[k].pid,
                                              mcp_procs'[ops[k].pid])]_vars

\* A removal has returned True while a call is still suspended in its read on
\* the removed process
C33_Witness ==
    \E k, j \in DOMAIN ops :
        /\ Reading(k)
        /\ ops[j].kind = "remove" /\ ops[j].pc = "done" /\ ops[j].result
        /\ ops[j].pid = ops[k].pid
        /\ ~mcp_procs[ops[k].pid].handle

(***************************************************************************)
(* Instances, the tasks that name them, and failed submissions             *)
(***************************************************************************)
\* The agents whose worker is between marking the instance of its task busy
\* (line 319) and finalizing the task (lines 338-342)
Executing == {a \in DefaultAgents : worker[a].pc = "execute"}

\* C34: while a worker is executing a task that names an instance of the
\* table, the status of the instance is busy, or error (forced by the
\* stuck-instance sweep).
C34_StatusReflectsExecution ==
    \A a \in Executing :
        LET i == worker[a].task[1].instance_id IN
        i \in DOMAIN instances => instances[i].status \in {"busy", "error"}

\* The requests that wait in the queues or are being executed
TasksInHand ==
    UNION {Range(agent_queues[a]) : a \in DefaultAgents}
        \cup {worker[a].task[1] : a \in Executing}

\* C35: every request that waits in a queue or is being executed names an
\* instance of the instance table, so that the worker's updates of the
\* instance (lines 318, 338) are never skipped.
C35_SweepSparesInstancesInUse ==
    \A t \in TasksInHand :
        "instance_id" \in DOMAIN t => t.instance_id \in DOMAIN instances

\* C36: a call of process_message that raised has created no instance and
\* written no mapping entry, and the step in which it raises puts nothing on
\* a queue.
C36_FailedSubmitChangesNothing ==
    /\ [](\A j \in LogIndex : submitLog[j].outcome = "raised" => ~submitLog[j].created)
    /\ [][\A j \in DOMAIN submitLog' :
            (j \notin DOMAIN submitLog /\ submitLog'[j].outcome = "raised")
            => agent_queues' = agent_queues]_vars

(***************************************************************************)
(* broadcast_message (websocket_manager.py)                                *)
(***************************************************************************)
\* The broadcast message on a queue or a WebSocket; the events of the other
\* calls of send_message are numbered from 1
BroadcastEvent == 0

\* What may be passed as exclude_sessions
ExcludeSets == SUBSET FanoutSessions

\* Lines 113-115: the message is published to the queues of every session of
\* sse_subscribers that is not excluded
PublishToSubscribed(queues, subs, exclude) ==
    [q \in DOMAIN queues |->
        IF \E sid \in DOMAIN subs \ exclude : q \in Range(subs[sid])
        THEN Append(queues[q], BroadcastEvent)
        ELSE queues[q]]

\* The orders in which a dict can list the keys S (the model keeps no
\* insertion order)
Orders(S) == {order \in [1..Cardinality(S) -> S] : Range(order) = S}

\* broadcast_message from the top of an iteration of its first loop to its
\* next suspension, or to its return. A call of a coroutine does not yield
\* and the queues are unbounded, so the only suspension is websocket.send_text
\* in send_message (line 81). Lines 108-110: an excluded session is passed
\* over; for a session that still has a connection the call suspends in the
\* send; for one that has lost it send_message publishes to the session's
\* queues at once (line 92). Lines 112-115: after the last session the second
\* loop publishes to every session that has subscribers, and the call returns
RECURSIVE Walk(_, _, _, _)
Walk(todo, queues, exclude, conns) ==
    IF todo = << >>
    THEN [pc |-> "done", todo |-> << >>, cur |-> 0, conn |-> 0,
          queues |-> PublishToSubscribed(queues, sse_subscribers, exclude)]
    ELSE LET sid == Head(todo) IN
         IF sid \in exclude
         THEN Walk(Tail(todo), queues, exclude, conns)
         ELSE IF sid \in DOMAIN conns
         THEN [pc |-> "sending", todo |-> Tail(todo), cur |-> sid,
               conn |-> conns[sid], queues |-> queues]
         ELSE Walk(Tail(todo),
                   PublishSse(queues, sse_subscribers, sid, BroadcastEvent),
                   exclude, conns)

\* Lines 106-110: exclude_sessions is read, the keys of active_connections
\* are listed and the loop runs up to its first send; at_call are the queues
\* subscribed to each session at the call
BroadcastCall(exclude, order) ==
    /\ bcast.pc = "idle"
    /\ LET w == Walk(order, sse_queues, exclude, active_connections) IN
        /\ bcast' = [pc |-> w.pc, exclude |-> exclude, todo |-> w.todo,
                     cur |-> w.cur, conn |-> w.conn,
                     at_call |-> [sid \in DOMAIN sse_subscribers |->
                                        Range(sse_subscribers[sid])]]
        /\ sse_queues' = w.queues
    /\ lastCall' = NoCall
    /\ UNCHANGED <<active_connections, ws_conns, sse_subscribers, pubs>>

\* send_message, lines 81-97, after websocket.send_text of the broadcast:
\* when it returned, the message is published to the session's queues; when
\* it raised, the session's connection is dropped and nothing is published;
\* then the loop goes on. The sends on one WebSocket end in the order in
\* which they were started
BroadcastSendDone(ok) ==
    /\ bcast.pc = "sending"
    /\ \A j \in DOMAIN pubs : ~(pubs[j].pc = "sending" /\ pubs[j].conn = bcast.conn)
    /\ ok => ws_conns[bcast.conn].state = "open"
    /\ ws_conns' = [ws_conns EXCEPT ![bcast.conn] =
            IF ok THEN [@ EXCEPT !.received = Append(@, BroadcastEvent)]
            ELSE [@ EXCEPT !.state = "closed"]]
    /\ active_connections' = IF ok THEN active_connections
                             ELSE DictDel(active_connections, bcast.cur)
    /\ LET w == Walk(bcast.todo,
                     AfterSend(ok, sse_queues, sse_subscribers, bcast.cur, BroadcastEvent),
                     bcast.exclude, active_connections') IN
        /\ bcast' = [bcast EXCEPT !.pc = w.pc, !.todo = w.todo, !.cur = w.cur,
                                  !.conn = w.conn]
        /\ sse_queues' = w.queues
    /\ lastCall' = NoCall
    /\ UNCHANGED <<sse_subscribers, pubs>>

\* One broadcast, with clients that connect, leave and subscribe meanwhile
NextBroadcast ==
    \/ \E sid \in FanoutSessions : Connect(sid) /\ UNCHANGED <<dvars, svars, mvars, rvars, pvars, bvars>>
    \/ \E k \in 1..MaxPubs, ok \in BOOLEAN : SendDone(k, ok) /\ UNCHANGED <<dvars, svars, mvars, rvars, pvars, bvars>>
    \/ \E c \in 1..MaxConns : ClientLeaves(c) /\ UNCHANGED <<dvars, svars, mvars, rvars, pvars, bvars>>
    \/ \E sid \in FanoutSessions : Subscribe(sid) /\ UNCHANGED <<dvars, svars, mvars, rvars, pvars, bvars>>
    \/ \E x \in ExcludeSets : \E order \in Orders(DOMAIN active_connections) :
            BroadcastCall(x, order) /\ UNCHANGED <<dvars, svars, mvars, rvars, pvars>>
    \/ \E ok \in BOOLEAN : BroadcastSendDone(ok) /\ UNCHANGED <<dvars, svars, mvars, rvars, pvars>>

BroadcastSpec == Init /\ [][NextBroadcast]_vars

\* The queues that were subscribed to a session when the broadcast was called
SubscribedAtCall(sid) ==
    IF sid \in DOMAIN bcast.at_call THEN bcast.at_call[sid] ELSE {}

\* C40: when broadcast_message has returned, every queue that was subscribed
\* to a session that is not excluded holds the message exactly once, and no
\* queue that was subscribed to an excluded session holds it.
C40_BroadcastExactlyOnce ==
    bcast.pc = "done" =>
        \A sid \in FanoutSessions : \A q \in SubscribedAtCall(sid) :
            Copies(sse_queues[q], BroadcastEvent)
                = IF sid \in bcast.exclude THEN 0 ELSE 1

====
